---- MODULE Spec2Model ----
(***************************************************************************)
(* The kernel helper of pkg/korokd/handlers/ipykernel_helper.py: the three *)
(* operations probe, execute and shutdown that drive a Jupyter kernel over *)
(* its iopub (broadcast) and shell (reply) channels.                       *)
(*                                                                         *)
(* Time is counted in milliseconds and advances while the helper is        *)
(* blocked in a bounded wait (wait_for_ready, get_iopub_msg,               *)
(* get_shell_msg) and between two iterations of a loop; a wait that finds  *)
(* a message queued returns it at once.                                    *)
(* Text is a sequence of atoms (strings); "".join is concatenation.        *)
(*                                                                         *)
(* The Python SDK of sdk/python/src/agentland (sandbox.py, _http.py,       *)
(* mcp/bridge.py) is a second state machine, SdkSpec, over the variables   *)
(* marked SDK: one call of a bridge operation or of the SDK objects, the   *)
(* HTTP requests it issues and the thread that deletes the context.        *)
(***************************************************************************)
EXTENDS Integers, Sequences, FiniteSets, TLC

VARIABLES
    op,               \* the sub-command: "probe", "execute" or "shutdown"
    timeout_ms,       \* args.timeout_ms
    pc,               \* position of the helper in its function
    now,              \* time.monotonic(), in ms
    deadline,         \* execute: deadline (ms)
    wait_until,       \* end of the bounded wait in progress
    msg_id,           \* execute: id returned by client.execute
    iopub,            \* messages in flight on the iopub channel
    shell,            \* messages in flight on the shell channel
    published,        \* number of iopub messages the kernel has delivered
    replied,          \* number of shell messages the kernel has delivered
    stdout_chunks,    \* execute: stdout_chunks
    stderr_chunks,    \* execute: stderr_chunks
    execution_count,  \* execute: execution_count
    status,           \* execute: status
    shell_status,     \* execute: shell_status
    emitted,          \* the payloads printed by _emit
    exc,              \* the exception propagating out of the function, or NoExc
    log,              \* the calls made on the client, in order, with their outcome
    kernel,           \* what the kernel at the other end can publish and reply
    call,             \* SDK: the function called and its arguments
    sdk_pc,           \* SDK: position of the caller in that function
    sandbox_id,       \* SDK: Sandbox.sandbox_id of the connected Sandbox
    context_id,       \* SDK: Context.context_id of the created Context
    requests,         \* SDK: the HTTP requests issued, in order
    returned,         \* SDK: the value the function returns (out), or NoValue
    raised,           \* SDK: the exception the function raises, or NoRaise
    started,          \* SDK: number of deletion threads started
    deleter,          \* SDK: position of the deletion thread
    printed           \* SDK: the lines printed to sys.stderr

helperVars == <<op, timeout_ms, pc, now, deadline, wait_until, msg_id, iopub, shell,
                published, replied, stdout_chunks, stderr_chunks, execution_count,
                status, shell_status, emitted, exc, log, kernel>>

sdkVars == <<call, sdk_pc, sandbox_id, context_id, requests, returned, raised, started,
             deleter, printed>>

vars == <<helperVars, sdkVars>>

---------------------------------------------------------------------------
(* Bounds of the model *)

MaxPublish == 3
MaxReply == 2

(* Program constants *)

MsPerSecond == 1000
ExecReadyCap == 5
ShutdownReadyCap == 3

Ops == {"probe", "execute", "shutdown"}
TimeoutMsValues == {0 - MsPerSecond, 0, MsPerSecond}

Absent == "absent"
NoExc == "none"
NoId == "no_msg_id"
MsgId == "X"
OtherId == "Y"

NL == <<"\n">>

Min(a, b) == IF a < b THEN a ELSE b
Max(a, b) == IF a > b THEN a ELSE b

---------------------------------------------------------------------------
(* Messages.  A field the message does not carry is Absent (strings) or    *)
(* the empty sequence (text, traceback, evalue, execution_count).          *)

NoMsg ==
    [parent |-> NoId, msg_type |-> Absent, name |-> Absent, text |-> <<>>,
     traceback |-> <<>>, evalue |-> <<>>, execution_count |-> <<>>,
     execution_state |-> Absent, status |-> Absent]

Stream(p, name, text) ==
    [NoMsg EXCEPT !.parent = p, !.msg_type = "stream", !.name = name, !.text = text]

ErrorEvent(p, tb, evalue) ==
    [NoMsg EXCEPT !.parent = p, !.msg_type = "error", !.traceback = tb, !.evalue = evalue]

ExecuteInput(p, n) ==
    [NoMsg EXCEPT !.parent = p, !.msg_type = "execute_input", !.execution_count = n]

StatusEvent(p, state) ==
    [NoMsg EXCEPT !.parent = p, !.msg_type = "status", !.execution_state = state]

ExecuteReply(p, st, n, tb, evalue) ==
    [NoMsg EXCEPT !.parent = p, !.msg_type = "execute_reply", !.status = st,
                  !.execution_count = n, !.traceback = tb, !.evalue = evalue]

Traceback == << <<"Traceback">>, <<"ZeroDivisionError">> >>
Evalue == <<"division by zero">>

(* Kernels.  Each is the set of events it can publish on iopub and the set *)
(* of replies it can deliver on shell while the helper listens.            *)

(* a kernel whose code writes to both streams *)
OutputKernel ==
    [events |-> { Stream(MsgId, "stdout", <<"5", "\n">>),
                  Stream(MsgId, "stdout", <<"6">>),
                  Stream(MsgId, "stderr", <<"w">>),
                  StatusEvent(MsgId, "idle") },
     replies |-> { ExecuteReply(MsgId, "ok", <<3>>, <<>>, <<>>),
                   ExecuteReply(MsgId, "error", <<4>>, Traceback, Evalue) }]

(* a kernel whose code fails *)
FailingKernel ==
    [events |-> { Stream(MsgId, "stdout", <<"5", "\n">>),
                  ErrorEvent(MsgId, Traceback, Evalue),
                  ErrorEvent(MsgId, <<>>, Evalue),
                  StatusEvent(MsgId, "idle") },
     replies |-> { ExecuteReply(MsgId, "error", <<4>>, Traceback, Evalue),
                   ExecuteReply(MsgId, "error", <<>>, <<>>, Evalue) }]

(* a kernel shared with another client, whose traffic is seen too *)
SharedKernel ==
    [events |-> { Stream(OtherId, "stderr", <<"v">>),
                  ExecuteInput(OtherId, <<9>>),
                  StatusEvent(OtherId, "idle"),
                  StatusEvent(MsgId, "idle") },
     replies |-> { ExecuteReply(MsgId, "ok", <<3>>, <<>>, <<>>),
                   ExecuteReply(OtherId, "error", <<9>>, << <<"other">> >>, <<>>) }]

(* a kernel sending the less common shapes of message *)
TerseKernel ==
    [events |-> { ExecuteInput(MsgId, <<2>>),
                  Stream(MsgId, Absent, <<"n">>),
                  StatusEvent(MsgId, "busy"),
                  StatusEvent(NoId, "idle"),
                  StatusEvent(MsgId, "idle") },
     replies |-> { ExecuteReply(MsgId, "aborted", <<>>, Traceback, <<>>),
                   ExecuteReply(MsgId, Absent, <<3>>, <<>>, <<>>) }]

Kernels == {OutputKernel, FailingKernel, SharedKernel, TerseKernel}

---------------------------------------------------------------------------
(* Helpers of execute *)

(* sep.join(lines) *)
RECURSIVE JoinWith(_, _)
JoinWith(sep, lines) ==
    IF lines = <<>> THEN <<>>
    ELSE IF Len(lines) = 1 THEN lines[1]
    ELSE lines[1] \o sep \o JoinWith(sep, Tail(lines))

(* "".join(chunks) *)
RECURSIVE StrJoin(_)
StrJoin(chunks) ==
    IF chunks = <<>> THEN <<>> ELSE Head(chunks) \o StrJoin(Tail(chunks))

(* a bound that is the whole timeout at every wait *)
RemainingIgnoresClock(d, t) == Max(0, d)

(* remaining(): max(0.0, deadline - time.monotonic()) *)
Remaining(d, t) == Max(0, d - t)

(* a test that lets a wait of length zero begin *)
ExpiredStrictly(rem) == rem < 0

(* rem <= 0 *)
Expired(rem) == rem <= 0

(* a variant in which a kernel-wide message counts as matching *)
MatchesOrKernelWide(m, id) == m.parent = id \/ m.parent = NoId

(* a filter that only asks for some parent msg_id *)
MatchesAnyParent(m, id) == m.parent # NoId

(* no filter at all *)
MatchesEverything(m, id) == TRUE

(* parent.get("msg_id") != msg_id is the negation of this *)
Matches(m, id) == m.parent = id

(* an insertion at the front *)
PrependChunk(chunks, text) == <<text>> \o chunks

(* chunks.append(text) *)
AppendChunk(chunks, text) == Append(chunks, text)

(* a branch that reads the traceback only *)
ErrorChunksTracebackOnly(m) ==
    IF m.traceback # <<>> THEN <<JoinWith(NL, m.traceback) \o NL>> ELSE <<>>

(* The chunks an error event or an error reply adds to stderr_chunks *)
ErrorChunks(m) ==
    IF m.traceback # <<>> THEN <<JoinWith(NL, m.traceback) \o NL>>
    ELSE IF m.evalue # <<>> THEN <<m.evalue \o NL>>
    ELSE <<>>

(* a test of the other stream name *)
IsStdoutStream(m) == m.name = "stdout"

(* a test that sends every stream not named "stdout" to stderr *)
IsNotStdoutStream(m) == m.name # "stdout"

(* content.get("name") == "stderr" *)
IsStderrStream(m) == m.name = "stderr"

(* a loop that no event ends: it reads iopub until the deadline *)
EndsEventLoopNever(m) == FALSE

(* a loop that any status event ends *)
EndsOnAnyStatus(m) == m.msg_type = "status"

(* msg_type == "status" and content.get("execution_state") == "idle" *)
EndsEventLoop(m) == m.msg_type = "status" /\ m.execution_state = "idle"

(* a default of 0 in place of the count tracked so far *)
CountOfDefaultZero(m, current) ==
    IF m.execution_count = <<>> THEN 0 ELSE m.execution_count[1]

(* int(content.get("execution_count", execution_count)) *)
CountOf(m, current) ==
    IF m.execution_count = <<>> THEN current ELSE m.execution_count[1]

(* content.get("status", "ok") *)
ReplyStatus(m) == IF m.status = Absent THEN "ok" ELSE m.status

(* f"Execution timed out after {args.timeout_ms} ms.\n" *)
TimeoutNotice(ms) == <<"Execution timed out after ", ToString(ms), " ms.", "\n">>

(* The bound handed to wait_for_ready, in ms *)
ReadyBound(o, ms) ==
    CASE o = "probe" -> ms
      [] o = "execute" -> Min(ExecReadyCap * MsPerSecond, ms)
      [] o = "shutdown" -> Min(ShutdownReadyCap * MsPerSecond, ms)

Call(ev, ok, m) == [ev |-> ev, ok |-> ok, msg |-> m]

---------------------------------------------------------------------------
(* The SDK variables while no call of the SDK is in progress *)
NoCall ==
    [fn |-> "none", sandbox_id |-> <<>>, code |-> <<>>, language |-> <<>>,
     timeout_ms |-> 0, configured |-> FALSE, path |-> <<>>, depth |-> 0]

NoValue == <<>>

NoRaise == [type |-> "none", http_status |-> <<>>, code |-> <<>>]

SdkIdle ==
    /\ call = NoCall
    /\ sdk_pc = "done"
    /\ sandbox_id = NoValue
    /\ context_id = NoValue
    /\ requests = <<>>
    /\ returned = NoValue
    /\ raised = NoRaise
    /\ started = 0
    /\ deleter = "unstarted"
    /\ printed = <<>>

Init ==
    /\ op \in Ops
    /\ timeout_ms \in TimeoutMsValues
    /\ pc = "init"
    /\ now = 0
    /\ deadline = 0
    /\ wait_until = 0
    /\ msg_id = NoId
    /\ iopub = <<>>
    /\ shell = <<>>
    /\ published = 0
    /\ replied = 0
    /\ stdout_chunks = <<>>
    /\ stderr_chunks = <<>>
    /\ execution_count = 0
    /\ status = Absent
    /\ shell_status = Absent
    /\ emitted = <<>>
    /\ exc = NoExc
    /\ log = <<>>
    /\ kernel \in Kernels
    /\ SdkIdle

---------------------------------------------------------------------------
(* Exception handling of the three functions *)

(* a handler that sends the request again after a failure *)
AfterRaiseRetries == "send"

(* an exception that leaves the function at once *)
AfterRaiseLeaves == "done"

(* try/finally: where control goes when a statement of the try block raises *)
AfterRaise == "finally"

(* an interrupt_kernel outside any try *)
InterruptRaisesOnFailure(ok) == ~ok

(* except Exception: pass around interrupt_kernel: does its failure propagate? *)
InterruptRaises(ok) == FALSE

(* except Exception: pass around stop_channels: does its failure propagate? *)
StopRaises(ok) == FALSE

(* a comparison with a status the loops never set *)
TimedOutMisspelt(st) == st = "timed_out"

(* if status == "timeout": the branch that interrupts and adds the notice *)
TimedOut(st) == st = "timeout"

(* a result that keeps the status of the loops *)
FinalStatusKept(st, sh) == st

(* the status of the result: "timeout", or else shell_status *)
FinalStatus(st, sh) == IF TimedOut(st) THEN st ELSE sh

(* an assignment in place of the append *)
EventStdoutAssigned(m, chunks) ==
    IF m.msg_type = "stream" /\ ~IsStderrStream(m) THEN <<m.text>> ELSE chunks

(* The effect of a matched iopub message on the accumulators *)
EventStdout(m, chunks) ==
    IF m.msg_type = "stream" /\ ~IsStderrStream(m)
    THEN AppendChunk(chunks, m.text)
    ELSE chunks

EventStderr(m, chunks) ==
    IF m.msg_type = "stream" /\ IsStderrStream(m) THEN AppendChunk(chunks, m.text)
    ELSE IF m.msg_type = "error" THEN chunks \o ErrorChunks(m)
    ELSE chunks

EventCount(m, current) ==
    IF m.msg_type = "execute_input" THEN CountOf(m, current) ELSE current

(* a variant that reports an error once: the reply's text is left out when *)
(* an event has already put it in stderr_chunks                            *)
ReplyStderrOnce(m, chunks) ==
    IF ReplyStatus(m) = "error"
          /\ \A i \in 1..Len(chunks) : <<chunks[i]>> # ErrorChunks(m)
    THEN chunks \o ErrorChunks(m)
    ELSE chunks

(* The effect of the matched reply on stderr_chunks *)
ReplyStderr(m, chunks) ==
    IF ReplyStatus(m) = "error" THEN chunks \o ErrorChunks(m) ELSE chunks

(* The payload execute prints *)
ExecutePayload(st, n, out, err) ==
    [status |-> st, execution_count |-> n, stdout |-> StrJoin(out), stderr |-> StrJoin(err)]

OkPayload == [ok |-> TRUE]

(* deadline = time.monotonic() + timeout_seconds, the first statement of   *)
(* execute that reads the clock: it runs before the client is built        *)
DeadlineFromSeconds(t, ms) == t + ms * MsPerSecond

DeadlineFrom(t, ms) == t + ms

(* What follows a successful wait_for_ready: probe returns its payload at *)
(* once, execute and shutdown send their request                          *)
AfterReady(o) == IF o = "probe" THEN "emit" ELSE "send"

(* Only shutdown wraps wait_for_ready in try/except Exception: pass; in *)
(* probe and execute its RuntimeError propagates                        *)
ReadyFailureAlwaysSwallowed(o) == TRUE

ReadyFailureNeverSwallowed(o) == FALSE

ReadyFailureSwallowedOutsideExecute(o) == o # "execute"

ReadyFailureSwallowed(o) == o = "shutdown"

---------------------------------------------------------------------------
(* Actions shared by the three functions *)

(* _build_client, and for execute the statements before it (read the code  *)
(* file, compute the deadline, initialise the accumulators).               *)
BuildClient ==
    /\ pc = "init"
    /\ \E ok \in BOOLEAN :
          IF ok
          THEN /\ pc' = "start_channels"
               /\ exc' = exc
               /\ IF op = "execute"
                  THEN /\ deadline' = DeadlineFrom(now, timeout_ms)
                       /\ status' = "ok"
                  ELSE UNCHANGED <<deadline, status>>
          ELSE /\ pc' = "done"
               /\ exc' = "OSError"
               /\ UNCHANGED <<deadline, status>>
    /\ UNCHANGED <<op, timeout_ms, now, wait_until, msg_id, iopub, shell, published,
                   replied, stdout_chunks, stderr_chunks, execution_count,
                   shell_status, emitted, log, kernel>>
    /\ UNCHANGED sdkVars

(* client.start_channels(), then the call of wait_for_ready *)
StartChannels ==
    /\ pc = "start_channels"
    /\ \E ok \in BOOLEAN :
          /\ log' = Append(log, Call("start_channels", ok, NoMsg))
          /\ IF ok
             THEN /\ pc' = "wait_ready"
                  /\ wait_until' = now + ReadyBound(op, timeout_ms)
                  /\ exc' = exc
             ELSE /\ pc' = AfterRaise
                  /\ exc' = "TransportError"
                  /\ UNCHANGED wait_until
    /\ UNCHANGED <<op, timeout_ms, now, deadline, msg_id, iopub, shell, published,
                   replied, stdout_chunks, stderr_chunks, execution_count, status,
                   shell_status, emitted, kernel>>
    /\ UNCHANGED sdkVars

(* wait_for_ready returns: the kernel answered *)
WaitReadyOk ==
    /\ pc = "wait_ready"
    /\ log' = Append(log, Call("wait_for_ready", TRUE, NoMsg))
    /\ pc' = AfterReady(op)
    /\ UNCHANGED <<op, timeout_ms, now, deadline, wait_until, msg_id, iopub, shell,
                   published, replied, stdout_chunks, stderr_chunks, execution_count,
                   status, shell_status, emitted, exc, kernel>>
    /\ UNCHANGED sdkVars

(* wait_for_ready raises RuntimeError: the bound elapsed *)
WaitReadyFail ==
    /\ pc = "wait_ready"
    /\ now >= wait_until
    /\ log' = Append(log, Call("wait_for_ready", FALSE, NoMsg))
    /\ IF ReadyFailureSwallowed(op)
       THEN pc' = AfterReady(op) /\ exc' = exc
       ELSE pc' = AfterRaise /\ exc' = "RuntimeError"
    /\ UNCHANGED <<op, timeout_ms, now, deadline, wait_until, msg_id, iopub, shell,
                   published, replied, stdout_chunks, stderr_chunks, execution_count,
                   status, shell_status, emitted, kernel>>
    /\ UNCHANGED sdkVars

(* Time passes while the helper is blocked in a bounded wait, and between *)
(* two iterations of a loop                                               *)
BlockedAlsoBeforeEmit ==
    \/ pc = "wait_ready"
    \/ pc = "emit"
    \/ pc = "iopub_wait" /\ iopub = <<>>
    \/ pc = "shell_wait" /\ shell = <<>>

Blocked ==
    \/ pc = "wait_ready"
    \/ pc = "iopub_wait" /\ iopub = <<>>
    \/ pc = "shell_wait" /\ shell = <<>>

BetweenIterations == pc \in {"iopub_head", "shell_head"}

Tick ==
    /\ \/ Blocked /\ now < wait_until
       \/ BetweenIterations /\ now < deadline
    /\ now' = now + MsPerSecond
    /\ UNCHANGED <<op, timeout_ms, pc, deadline, wait_until, msg_id, iopub, shell,
                   published, replied, stdout_chunks, stderr_chunks, execution_count,
                   status, shell_status, emitted, exc, log, kernel>>
    /\ UNCHANGED sdkVars

(* finally: client.stop_channels(), then the function returns or re-raises *)
StopChannels ==
    /\ pc = "finally"
    /\ \E ok \in BOOLEAN :
          /\ log' = Append(log, Call("stop_channels", ok, NoMsg))
          /\ exc' = IF StopRaises(ok) THEN "TransportError" ELSE exc
    /\ pc' = "done"
    /\ iopub' = <<>>
    /\ shell' = <<>>
    /\ UNCHANGED <<op, timeout_ms, now, deadline, wait_until, msg_id, published, replied, stdout_chunks, stderr_chunks, execution_count,
                   status, shell_status, emitted, kernel>>
    /\ UNCHANGED sdkVars

---------------------------------------------------------------------------
(* probe and shutdown *)

(* probe: return _emit({"ok": True}) *)
ProbeEmit ==
    /\ pc = "emit"
    /\ op = "probe"
    /\ emitted' = Append(emitted, OkPayload)
    /\ pc' = "finally"
    /\ UNCHANGED <<op, timeout_ms, now, deadline, wait_until, msg_id, iopub, shell,
                   published, replied, stdout_chunks, stderr_chunks, execution_count,
                   status, shell_status, exc, log, kernel>>
    /\ UNCHANGED sdkVars

(* shutdown: client.shutdown(restart=False) with its failure swallowed, then *)
(* return _emit({"ok": True})                                                *)
SendShutdown ==
    /\ pc = "send"
    /\ op = "shutdown"
    /\ \E ok \in BOOLEAN : log' = Append(log, Call("shutdown", ok, NoMsg))
    /\ emitted' = Append(emitted, OkPayload)
    /\ pc' = "finally"
    /\ UNCHANGED <<op, timeout_ms, now, deadline, wait_until, msg_id, iopub, shell,
                   published, replied, stdout_chunks, stderr_chunks, execution_count,
                   status, shell_status, exc, kernel>>
    /\ UNCHANGED sdkVars

---------------------------------------------------------------------------
(* execute *)

(* msg_id = client.execute(code, ...) *)
SendExecute ==
    /\ pc = "send"
    /\ op = "execute"
    /\ \E ok \in BOOLEAN :
          /\ log' = Append(log, Call("execute", ok, NoMsg))
          /\ IF ok
             THEN msg_id' = MsgId /\ pc' = "iopub_head" /\ exc' = exc
             ELSE msg_id' = msg_id /\ pc' = AfterRaise /\ exc' = "TransportError"
    /\ UNCHANGED <<op, timeout_ms, now, deadline, wait_until, iopub, shell, published,
                   replied, stdout_chunks, stderr_chunks, execution_count, status,
                   shell_status, emitted, kernel>>
    /\ UNCHANGED sdkVars

(* Head of the event loop: rem = remaining(); timeout if rem <= 0, otherwise *)
(* the call of get_iopub_msg(timeout=rem).  Leaving the loop runs            *)
(* shell_status = "ok".                                                      *)
IopubHead ==
    /\ pc = "iopub_head"
    /\ LET rem == Remaining(deadline, now) IN
          IF Expired(rem)
          THEN /\ status' = "timeout"
               /\ shell_status' = "ok"
               /\ pc' = "shell_head"
               /\ UNCHANGED <<wait_until, log>>
          ELSE /\ pc' = "iopub_wait"
               /\ wait_until' = now + rem
               /\ log' = Append(log, Call("get_iopub_msg", TRUE, NoMsg))
               /\ UNCHANGED <<status, shell_status>>
    /\ UNCHANGED <<op, timeout_ms, now, deadline, msg_id, iopub, shell, published,
                   replied, stdout_chunks, stderr_chunks, execution_count, emitted, exc, kernel>>
    /\ UNCHANGED sdkVars

(* get_iopub_msg returns a message within the bound; the body of the loop *)
IopubRecv ==
    /\ pc = "iopub_wait"
    /\ iopub # <<>>
    /\ now < wait_until
    /\ LET m == Head(iopub) IN
          /\ iopub' = Tail(iopub)
          /\ log' = Append(log, Call("iopub_msg", TRUE, m))
          /\ IF ~Matches(m, msg_id)
             THEN /\ pc' = "iopub_head"
                  /\ UNCHANGED <<stdout_chunks, stderr_chunks, execution_count,
                                 shell_status>>
             ELSE /\ stdout_chunks' = EventStdout(m, stdout_chunks)
                  /\ stderr_chunks' = EventStderr(m, stderr_chunks)
                  /\ execution_count' = EventCount(m, execution_count)
                  /\ IF m.msg_type \notin {"stream", "error", "execute_input"}
                        /\ EndsEventLoop(m)
                     THEN pc' = "shell_head" /\ shell_status' = "ok"
                     ELSE pc' = "iopub_head" /\ UNCHANGED shell_status
    /\ UNCHANGED <<op, timeout_ms, now, deadline, wait_until, msg_id, shell, published,
                   replied, status, emitted, exc, kernel>>
    /\ UNCHANGED sdkVars

(* get_iopub_msg raises Empty: nothing arrived within the bound (the clock *)
(* reaches the bound only over an empty queue; what the kernel publishes  *)
(* after that stays queued)                                               *)
IopubEmpty ==
    /\ pc = "iopub_wait"
    /\ now >= wait_until
    /\ log' = Append(log, Call("iopub_empty", TRUE, NoMsg))
    /\ status' = "timeout"
    /\ shell_status' = "ok"
    /\ pc' = "shell_head"
    /\ UNCHANGED <<op, timeout_ms, now, deadline, wait_until, msg_id, iopub, shell,
                   published, replied, stdout_chunks, stderr_chunks, execution_count,
                   emitted, exc, kernel>>
    /\ UNCHANGED sdkVars

(* get_iopub_msg raises something other than Empty *)
IopubError ==
    /\ pc = "iopub_wait"
    /\ log' = Append(log, Call("iopub_msg", FALSE, NoMsg))
    /\ exc' = "TransportError"
    /\ pc' = AfterRaise
    /\ UNCHANGED <<op, timeout_ms, now, deadline, wait_until, msg_id, iopub, shell,
                   published, replied, stdout_chunks, stderr_chunks, execution_count,
                   status, shell_status, emitted, kernel>>
    /\ UNCHANGED sdkVars

(* Head of the reply loop: while status != "timeout"; rem = remaining();    *)
(* timeout if rem <= 0, otherwise the call of get_shell_msg(timeout=rem)    *)
ShellHead ==
    /\ pc = "shell_head"
    /\ IF TimedOut(status)
       THEN pc' = "finalize" /\ UNCHANGED <<status, wait_until, log>>
       ELSE LET rem == Remaining(deadline, now) IN
               IF Expired(rem)
               THEN /\ status' = "timeout"
                    /\ pc' = "finalize"
                    /\ UNCHANGED <<wait_until, log>>
               ELSE /\ pc' = "shell_wait"
                    /\ wait_until' = now + rem
                    /\ log' = Append(log, Call("get_shell_msg", TRUE, NoMsg))
                    /\ UNCHANGED status
    /\ UNCHANGED <<op, timeout_ms, now, deadline, msg_id, iopub, shell, published,
                   replied, stdout_chunks, stderr_chunks, execution_count,
                   shell_status, emitted, exc, kernel>>
    /\ UNCHANGED sdkVars

(* get_shell_msg returns a message within the bound; the body of the loop *)
ShellRecv ==
    /\ pc = "shell_wait"
    /\ shell # <<>>
    /\ now < wait_until
    /\ LET m == Head(shell) IN
          /\ shell' = Tail(shell)
          /\ log' = Append(log, Call("shell_msg", TRUE, m))
          /\ IF ~Matches(m, msg_id)
             THEN /\ pc' = "shell_head"
                  /\ UNCHANGED <<shell_status, execution_count, stderr_chunks>>
             ELSE /\ shell_status' = ReplyStatus(m)
                  /\ execution_count' = CountOf(m, execution_count)
                  /\ stderr_chunks' = ReplyStderr(m, stderr_chunks)
                  /\ pc' = "finalize"
    /\ UNCHANGED <<op, timeout_ms, now, deadline, wait_until, msg_id, iopub, published,
                   replied, stdout_chunks, status, emitted, exc, kernel>>
    /\ UNCHANGED sdkVars

(* get_shell_msg raises Empty: no reply arrived within the bound *)
ShellEmpty ==
    /\ pc = "shell_wait"
    /\ now >= wait_until
    /\ log' = Append(log, Call("shell_empty", TRUE, NoMsg))
    /\ status' = "timeout"
    /\ pc' = "finalize"
    /\ UNCHANGED <<op, timeout_ms, now, deadline, wait_until, msg_id, iopub, shell,
                   published, replied, stdout_chunks, stderr_chunks, execution_count,
                   shell_status, emitted, exc, kernel>>
    /\ UNCHANGED sdkVars

(* get_shell_msg raises something other than Empty *)
ShellError ==
    /\ pc = "shell_wait"
    /\ log' = Append(log, Call("shell_msg", FALSE, NoMsg))
    /\ exc' = "TransportError"
    /\ pc' = AfterRaise
    /\ UNCHANGED <<op, timeout_ms, now, deadline, wait_until, msg_id, iopub, shell,
                   published, replied, stdout_chunks, stderr_chunks, execution_count,
                   status, shell_status, emitted, kernel>>
    /\ UNCHANGED sdkVars

(* After the loops, on a timeout: interrupt_kernel() with its failure        *)
(* swallowed, the notice, and return _emit({...})                            *)
FinalizeTimeout ==
    /\ pc = "finalize"
    /\ TimedOut(status)
    /\ \E ok \in BOOLEAN :
          /\ log' = Append(log, Call("interrupt_kernel", ok, NoMsg))
          /\ IF InterruptRaises(ok)
             THEN /\ exc' = "TransportError"
                  /\ pc' = AfterRaise
                  /\ UNCHANGED <<stderr_chunks, emitted>>
             ELSE /\ stderr_chunks' = AppendChunk(stderr_chunks, TimeoutNotice(timeout_ms))
                  /\ emitted' = Append(emitted,
                         ExecutePayload(FinalStatus(status, shell_status), execution_count,
                                        stdout_chunks, stderr_chunks'))
                  /\ pc' = "finally"
                  /\ exc' = exc
    /\ UNCHANGED <<op, timeout_ms, now, deadline, wait_until, msg_id, iopub, shell,
                   published, replied, stdout_chunks, execution_count, status,
                   shell_status, kernel>>
    /\ UNCHANGED sdkVars

(* After the loops, without a timeout: status = shell_status and            *)
(* return _emit({...})                                                      *)
FinalizeReplied ==
    /\ pc = "finalize"
    /\ ~TimedOut(status)
    /\ status' = FinalStatus(status, shell_status)
    /\ emitted' = Append(emitted,
           ExecutePayload(status', execution_count, stdout_chunks, stderr_chunks))
    /\ pc' = "finally"
    /\ UNCHANGED <<op, timeout_ms, now, deadline, wait_until, msg_id, iopub, shell,
                   published, replied, stdout_chunks, stderr_chunks, execution_count,
                   shell_status, exc, log, kernel>>
    /\ UNCHANGED sdkVars

---------------------------------------------------------------------------
(* The kernel *)

Listening == pc \in {"iopub_wait", "shell_wait"}

(* The kernel publishes an event on iopub *)
KernelPublish ==
    /\ Listening
    /\ published < MaxPublish
    /\ \E m \in kernel.events : iopub' = Append(iopub, m)
    /\ published' = published + 1
    /\ UNCHANGED <<op, timeout_ms, pc, now, deadline, wait_until, msg_id, shell,
                   replied, stdout_chunks, stderr_chunks, execution_count, status,
                   shell_status, emitted, exc, log, kernel>>
    /\ UNCHANGED sdkVars

(* The kernel delivers a reply on shell *)
KernelReply ==
    /\ Listening
    /\ replied < MaxReply
    /\ \E m \in kernel.replies : shell' = Append(shell, m)
    /\ replied' = replied + 1
    /\ UNCHANGED <<op, timeout_ms, pc, now, deadline, wait_until, msg_id, iopub,
                   published, stdout_chunks, stderr_chunks, execution_count, status,
                   shell_status, emitted, exc, log, kernel>>
    /\ UNCHANGED sdkVars

---------------------------------------------------------------------------
Next ==
    \/ BuildClient
    \/ StartChannels
    \/ WaitReadyOk
    \/ WaitReadyFail
    \/ Tick
    \/ ProbeEmit
    \/ SendShutdown
    \/ SendExecute
    \/ IopubHead
    \/ IopubRecv
    \/ IopubEmpty
    \/ IopubError
    \/ ShellHead
    \/ ShellRecv
    \/ ShellEmpty
    \/ ShellError
    \/ FinalizeTimeout
    \/ FinalizeReplied
    \/ StopChannels
    \/ KernelPublish
    \/ KernelReply

Spec == Init /\ [][Next]_vars

(* The steps of the helper process itself: it runs whenever it can.  The *)
(* kernel owes nothing, a receive need never fail; the clock advances.   *)
HelperStep ==
    \/ BuildClient
    \/ StartChannels
    \/ WaitReadyOk
    \/ WaitReadyFail
    \/ ProbeEmit
    \/ SendShutdown
    \/ SendExecute
    \/ IopubHead
    \/ IopubRecv
    \/ IopubEmpty
    \/ ShellHead
    \/ ShellRecv
    \/ ShellEmpty
    \/ FinalizeTimeout
    \/ FinalizeReplied
    \/ StopChannels

LiveSpec == Init /\ [][Next]_vars /\ WF_vars(Tick) /\ WF_vars(HelperStep)

(* The helper variables while only the SDK runs *)
HelperIdle ==
    /\ op = "probe"
    /\ timeout_ms = 0
    /\ pc = "done"
    /\ now = 0
    /\ deadline = 0
    /\ wait_until = 0
    /\ msg_id = NoId
    /\ iopub = <<>>
    /\ shell = <<>>
    /\ published = 0
    /\ replied = 0
    /\ stdout_chunks = <<>>
    /\ stderr_chunks = <<>>
    /\ execution_count = 0
    /\ status = Absent
    /\ shell_status = Absent
    /\ emitted = <<>>
    /\ exc = NoExc
    /\ log = <<>>
    /\ kernel = OutputKernel

---------------------------------------------------------------------------
(* The Python SDK: values *)

(* Bounds of Context.exec and of the bridge, in ms; bounds of fs.tree *)
MinTimeoutMs == 100
MaxTimeoutMs == 300000
DefaultExecTimeoutMs == 30000
DefaultDepth == 5
MinDepth == 1
MaxDepth == 20

(* A string is a sequence of characters; " " stands for any whitespace *)
IsSpace(c) == c = " "

RECURSIVE LStrip(_)
LStrip(s) == IF s # <<>> /\ IsSpace(Head(s)) THEN LStrip(Tail(s)) ELSE s

RECURSIVE RStrip(_)
RStrip(s) ==
    IF s # <<>> /\ IsSpace(s[Len(s)]) THEN RStrip(SubSeq(s, 1, Len(s) - 1)) ELSE s

(* str.strip() *)
Strip(s) == RStrip(LStrip(s))

(* A JSON value: absent from its object, null, a string, an integer, a    *)
(* boolean (in Python an int: True is 1) or a float                      *)
JV(t, s, n) == [t |-> t, s |-> s, n |-> n]
JAbsent == JV("absent", <<>>, 0)
JNull == JV("null", <<>>, 0)
JStr(s) == JV("str", s, 0)
JInt(n) == JV("int", <<>>, n)
JBool(b) == JV("bool", <<>>, IF b THEN 1 ELSE 0)
JFloat(n) == JV("float", <<>>, n)

(* str(d.get(key, default)) *)
Str(v, default) ==
    CASE v.t = "absent" -> default
      [] v.t = "str" -> v.s
      [] v.t = "null" -> <<"None">>
      [] v.t = "bool" -> IF v.n = 1 THEN <<"True">> ELSE <<"False">>
      [] OTHER -> <<ToString(v.n)>>

(* The body of an HTTP response: empty, not JSON, a JSON array, or a JSON *)
(* object with its code, msg, data and context_id members; data is        *)
(* absent, null or an object, and then context_id is a member of data     *)
Body(shape, code, msg, data, cid) ==
    [shape |-> shape, code |-> code, msg |-> msg, data |-> data, context_id |-> cid]

Obj(cid) == Body("object", JAbsent, JAbsent, "absent", cid)

Envelope(code, data, cid) == Body("object", code, JStr(<<"m">>), data, cid)

ErrorBody(code) == Body("object", code, JStr(<<"m">>), "absent", JAbsent)

NotJson == Body("invalid", JAbsent, JAbsent, "absent", JAbsent)

JsonArray == Body("array", JAbsent, JAbsent, "absent", JAbsent)

EmptyBody == Body("empty", JAbsent, JAbsent, "absent", JAbsent)

(* What urlopen does: a response, an HTTPError with a status and a body, a *)
(* URLError, or another exception raised while the response is read        *)
Response(net, st, body) == [net |-> net, status |-> st, body |-> body]

Ok(body) == Response("ok", 200, body)

HttpError(st, body) == Response("http_error", st, body)

UrlError == Response("url_error", 0, EmptyBody)

ReadError == Response("read_error", 0, EmptyBody)

(* SDKError(message, http_status=..., code=...) and the other exceptions *)
Exc(type, http_status, code) == [type |-> type, http_status |-> http_status, code |-> code]

SDKError(http_status, code) == Exc("SDKError", http_status, code)

ValueError == Exc("ValueError", <<>>, <<>>)

(* isinstance(code, int): in Python a boolean is an int *)
IsInstanceInt(v) == v.t \in {"int", "bool"}

(* a test that sets no boolean aside *)
IsInstanceBoolNever(v) == FALSE

(* isinstance(code, bool) *)
IsInstanceBool(v) == v.t = "bool"

(* _extract_error_message: the code of the SDKError *)
ExtractCode(body) ==
    IF body.shape # "object" THEN <<>>
    ELSE LET code == IF IsInstanceBool(body.code) THEN JNull ELSE body.code
         IN  IF IsInstanceInt(code) THEN <<code.n>> ELSE <<>>

(* The outcome of a call: a dict, of which the model keeps context_id, or *)
(* an exception                                                           *)
Returns(cid) == [ok |-> TRUE, context_id |-> cid, exc |-> NoRaise]

Raises(e) == [ok |-> FALSE, context_id |-> JAbsent, exc |-> e]

(* _decode_json_bytes then _unwrap_json_result *)
Unwrap(body) ==
    CASE body.shape = "invalid" -> Raises(SDKError(<<>>, <<>>))
      [] body.shape \in {"empty", "array"} -> Raises(SDKError(<<>>, <<>>))
      [] body.code.t # "absent" /\ body.msg.t # "absent" ->
            IF ~(body.code.t \in {"int", "float"} /\ body.code.n = 200)
            THEN Raises(SDKError(<<>>, IF IsInstanceInt(body.code) THEN <<body.code.n>> ELSE <<>>))
            ELSE IF body.data # "object"
            THEN Raises(SDKError(<<>>, <<200>>))
            ELSE Returns(body.context_id)
      [] OTHER -> Returns(body.context_id)

(* _HTTPClient._request then request_json *)
RequestJson(resp) ==
    CASE resp.net = "url_error" -> Raises(SDKError(<<>>, <<>>))
      [] resp.net = "read_error" -> Raises(Exc("OSError", <<>>, <<>>))
      [] resp.net = "http_error" -> Raises(SDKError(<<resp.status>>, ExtractCode(resp.body)))
      [] OTHER -> Unwrap(resp.body)

(* _ensure_timeout *)
TimeoutAccepted(t) == ~(t < MinTimeoutMs \/ t > MaxTimeoutMs)

(* a bridge that hands timeout_ms on as it is *)
BridgeTimeoutUnchanged(t) == t

(* timeout = timeout_ms if timeout_ms > 0 else 30000 *)
BridgeTimeout(t) == IF t > 0 THEN t ELSE DefaultExecTimeoutMs

(* kwargs["depth"] = depth only if depth > 0; fs.tree defaults to 5 *)
TreeDepth(d) == IF d > 0 THEN d ELSE DefaultDepth

(* depth < 1 or depth > 20 *)
DepthAccepted(d) == ~(d < MinDepth \/ d > MaxDepth)

(* self._normalize_language of the bridge (the words of the model are in *)
(* lower case)                                                           *)
BridgeLanguage(l) == IF Strip(l) = <<>> THEN <<"python">> ELSE Strip(l)

(* _normalize_language of sandbox.py *)
LanguageAccepted(l) == Strip(l) \in {<<"python">>, <<"shell">>}

(* a check that takes only the empty string for missing *)
SidMissingIfEmpty(s) == s = <<>>

(* _require_sandbox_id: not sandbox_id.strip() *)
SidMissing(s) == Strip(s) = <<>>

(* a connect that looks the sandbox up on the server *)
ConnectLooksUp(sid) ==
    <<[method |-> "GET", route |-> "sandbox", session |-> sid, by |-> "caller",
       timeout_ms |-> 0, code |-> <<>>, answer |-> Ok(Obj(JAbsent))]>>

(* Sandbox.connect: "Connect does not call server-side lookup by design" *)
ConnectRequests(sid) == <<>>

(* if not str(out.get("context_id", "")).strip(): out["context_id"] = ... *)
Fixup(cid, own) == IF Strip(Str(cid, <<>>)) = <<>> THEN JStr(own) ELSE cid

(* a finally that deletes whether or not a context was created *)
DeletionDueAlways(cid) == TRUE

(* finally: if context is not None *)
DeletionDue(cid) == cid # NoValue

(* a _run that catches SDKError only *)
CaughtIfSdkError(e) == e.type = "SDKError"

(* _run: except SDKError ... except Exception *)
Caught(e) == e.type = "SDKError" \/ e.type # "none"

(* the line _run prints for the exception it caught *)
DeletionNotice(e) ==
    IF e.type = "SDKError"
    THEN "Failed to delete context asynchronously"
    ELSE "Unexpected error during async context deletion"

---------------------------------------------------------------------------
(* The Python SDK: the calls and the answers of the server *)

BridgeFns == {"code_execute", "fs_tree", "fs_file_get", "fs_file_write"}

SandboxIds == {<<>>, <<" ">>, <<"s">>, <<" ", "s", " ">>}

Codes == {<<>>, <<" ">>, <<"c">>}

Languages == {<<>>, <<"ruby">>}

TimeoutInputs ==
    {0 - 1, 0, MinTimeoutMs - 1, MinTimeoutMs, MaxTimeoutMs, MaxTimeoutMs + 1}

Paths == {<<>>, <<"p">>}

Depths == {0, MinDepth, MaxDepth + 1}

SdkCall(fn, sid, code, lang, t, conf, path, depth) ==
    [fn |-> fn, sandbox_id |-> sid, code |-> code, language |-> lang, timeout_ms |-> t,
     configured |-> conf, path |-> path, depth |-> depth]

(* bridge.code_execute(...); the session of test_sandbox_sdk.py: connect, *)
(* context.create, exec, delete; the three fs operations of the bridge    *)
SdkCalls ==
    {SdkCall("code_execute", s, c, l, t, g, <<>>, 0) :
        s \in SandboxIds, c \in Codes, l \in Languages, t \in TimeoutInputs, g \in BOOLEAN}
    \cup {SdkCall("sdk_session", s, c, <<"python">>, t, g, <<>>, 0) :
        s \in SandboxIds, c \in Codes, t \in TimeoutInputs, g \in BOOLEAN}
    \cup {SdkCall("fs_tree", s, <<>>, <<>>, 0, g, p, d) :
        s \in SandboxIds, g \in BOOLEAN, p \in Paths, d \in Depths}
    \cup {SdkCall(f, s, <<>>, <<>>, 0, g, p, 0) :
        f \in {"fs_file_get", "fs_file_write"}, s \in SandboxIds, g \in BOOLEAN, p \in Paths}

Failures ==
    { HttpError(400, ErrorBody(JInt(1))),
      HttpError(401, ErrorBody(JAbsent)),
      HttpError(404, ErrorBody(JBool(TRUE))),
      HttpError(500, ErrorBody(JStr(<<"1">>))),
      HttpError(501, ErrorBody(JFloat(7))),
      HttpError(502, NotJson),
      HttpError(503, JsonArray),
      HttpError(504, EmptyBody),
      UrlError,
      ReadError }

CreateResponses ==
    { Ok(Obj(JStr(<<"c", "1">>))),
      Ok(Envelope(JInt(200), "object", JStr(<<" ", "c", "1">>))),
      Ok(Obj(JStr(<<" ">>))),
      Ok(Envelope(JInt(500), "absent", JAbsent)),
      Ok(Envelope(JInt(200), "null", JAbsent)) } \cup Failures

ExecResponses ==
    { Ok(Obj(JAbsent)),
      Ok(Obj(JStr(<<>>))),
      Ok(Obj(JStr(<<" ">>))),
      Ok(Obj(JStr(<<"c", "9">>))),
      Ok(Obj(JNull)),
      Ok(NotJson) } \cup Failures

DeleteResponses == {Ok(Obj(JStr(<<"c", "1">>)))} \cup Failures

FsResponses == {Ok(Obj(JAbsent))} \cup Failures

(* A request as _request issues it, with the answer urlopen gave *)
Request(method, route, by, t, code, resp) ==
    [method |-> method, route |-> route, session |-> sandbox_id, by |-> by,
     timeout_ms |-> t, code |-> code, answer |-> resp]

SdkInit ==
    /\ call \in SdkCalls
    /\ sdk_pc = IF call.fn \in BridgeFns THEN "validate" ELSE "connect"
    /\ sandbox_id = NoValue
    /\ context_id = NoValue
    /\ requests = <<>>
    /\ returned = NoValue
    /\ raised = NoRaise
    /\ started = 0
    /\ deleter = "unstarted"
    /\ printed = <<>>
    /\ HelperIdle

---------------------------------------------------------------------------
(* The Python SDK: actions *)

(* the function raises e from the given place: code_execute runs its *)
(* finally when the place is inside the try                          *)
RaiseFrom(e, inTry) ==
    /\ raised' = e
    /\ sdk_pc' = IF inTry /\ call.fn = "code_execute" THEN "finally" ELSE "done"

(* sid = self._require_sandbox_id(sandbox_id), and in code_execute the *)
(* check of code                                                       *)
Validate ==
    /\ sdk_pc = "validate"
    /\ IF SidMissing(call.sandbox_id)
       THEN RaiseFrom(ValueError, FALSE)
       ELSE IF call.fn = "code_execute" /\ Strip(call.code) = <<>>
       THEN RaiseFrom(ValueError, FALSE)
       ELSE sdk_pc' = "connect" /\ raised' = raised
    /\ UNCHANGED <<call, sandbox_id, context_id, requests, returned, started, deleter, printed>>
    /\ UNCHANGED helperVars

(* Sandbox.connect(sid): _ensure_non_empty, then cls._client() *)
Connect ==
    /\ sdk_pc = "connect"
    /\ LET arg == IF call.fn \in BridgeFns THEN Strip(call.sandbox_id) ELSE call.sandbox_id
       IN  IF Strip(arg) = <<>> \/ ~call.configured
           THEN /\ RaiseFrom(SDKError(<<>>, <<>>), FALSE)
                /\ UNCHANGED <<sandbox_id, requests>>
           ELSE /\ sandbox_id' = Strip(arg)
                /\ requests' = requests \o ConnectRequests(Strip(arg))
                /\ sdk_pc' = IF call.fn \in {"code_execute", "sdk_session"} THEN "create" ELSE "fs"
                /\ raised' = raised
    /\ UNCHANGED <<call, context_id, returned, started, deleter, printed>>
    /\ UNCHANGED helperVars

(* sandbox.context.create(language=..., cwd=...) *)
Create ==
    /\ sdk_pc = "create"
    /\ LET lang == IF call.fn = "code_execute" THEN BridgeLanguage(call.language) ELSE call.language
       IN  IF ~LanguageAccepted(lang)
           THEN /\ RaiseFrom(SDKError(<<>>, <<>>), TRUE)
                /\ UNCHANGED <<context_id, requests>>
           ELSE \E resp \in CreateResponses :
                      LET o == RequestJson(resp)
                          cid == Strip(Str(o.context_id, <<>>))
                      IN  /\ requests' = Append(requests, Request("POST", "contexts", "caller", 0, <<>>, resp))
                          /\ IF ~o.ok
                             THEN RaiseFrom(o.exc, TRUE) /\ UNCHANGED context_id
                             ELSE IF cid = <<>>
                             THEN RaiseFrom(SDKError(<<>>, <<>>), TRUE) /\ UNCHANGED context_id
                             ELSE context_id' = cid /\ sdk_pc' = "exec" /\ raised' = raised
    /\ UNCHANGED <<call, sandbox_id, returned, started, deleter, printed>>
    /\ UNCHANGED helperVars

(* context.exec(code, timeout_ms=timeout), and in code_execute the lines *)
(* that compute timeout and fill in context_id                           *)
Exec ==
    /\ sdk_pc = "exec"
    /\ LET t == IF call.fn = "code_execute" THEN BridgeTimeout(call.timeout_ms) ELSE call.timeout_ms
       IN  IF Strip(call.code) = <<>> \/ ~TimeoutAccepted(t)
           THEN /\ RaiseFrom(SDKError(<<>>, <<>>), TRUE)
                /\ UNCHANGED <<requests, returned>>
           ELSE \E resp \in ExecResponses :
                      LET o == RequestJson(resp)
                      IN  /\ requests' = Append(requests, Request("POST", "execute", "caller", t,
                                                                  Strip(call.code), resp))
                          /\ IF ~o.ok
                             THEN RaiseFrom(o.exc, TRUE) /\ UNCHANGED returned
                             ELSE /\ returned' =
                                       IF call.fn = "code_execute"
                                       THEN <<[context_id |-> Fixup(o.context_id, context_id)]>>
                                       ELSE <<[context_id |-> o.context_id]>>
                                  /\ sdk_pc' = IF call.fn = "code_execute" THEN "finally" ELSE "delete"
                                  /\ raised' = raised
    /\ UNCHANGED <<call, sandbox_id, context_id, started, deleter, printed>>
    /\ UNCHANGED helperVars

(* finally: if context is not None: self._delete_context_async(context), *)
(* that is Thread(target=_run, daemon=True).start()                      *)
Finally ==
    /\ sdk_pc = "finally"
    /\ IF DeletionDue(context_id)
       THEN started' = started + 1 /\ deleter' = "started"
       ELSE UNCHANGED <<started, deleter>>
    /\ sdk_pc' = "return"
    /\ UNCHANGED <<call, sandbox_id, context_id, requests, returned, raised, printed>>
    /\ UNCHANGED helperVars

(* code_execute returns out or lets the exception out *)
Return ==
    /\ sdk_pc = "return"
    /\ sdk_pc' = "done"
    /\ UNCHANGED <<call, sandbox_id, context_id, requests, returned, raised, started, deleter, printed>>
    /\ UNCHANGED helperVars

(* _run, on the deletion thread: context.delete() and the two handlers *)
DeleterRun ==
    /\ deleter = "started"
    /\ \E resp \in DeleteResponses :
          LET o == RequestJson(resp)
          IN  /\ requests' = Append(requests, Request("DELETE", "context", "deleter", 0, <<>>, resp))
              /\ IF o.ok
                 THEN deleter' = "done" /\ printed' = printed
                 ELSE IF Caught(o.exc)
                 THEN deleter' = "done" /\ printed' = Append(printed, DeletionNotice(o.exc))
                 ELSE deleter' = "died" /\ printed' = printed
    /\ UNCHANGED <<call, sdk_pc, sandbox_id, context_id, returned, raised, started>>
    /\ UNCHANGED helperVars

(* ctx.delete() called by the owner of the context *)
Delete ==
    /\ sdk_pc = "delete"
    /\ \E resp \in DeleteResponses :
          LET o == RequestJson(resp)
          IN  /\ requests' = Append(requests, Request("DELETE", "context", "caller", 0, <<>>, resp))
              /\ IF o.ok
                 THEN sdk_pc' = "done" /\ raised' = raised
                 ELSE RaiseFrom(o.exc, FALSE)
    /\ UNCHANGED <<call, sandbox_id, context_id, returned, started, deleter, printed>>
    /\ UNCHANGED helperVars

(* sandbox.fs.tree / read / write: the local check, then the request *)
Fs ==
    /\ sdk_pc = "fs"
    /\ LET rejected ==
              IF call.fn = "fs_tree"
              THEN ~DepthAccepted(TreeDepth(call.depth))
              ELSE Strip(call.path) = <<>>
           method == IF call.fn = "fs_file_write" THEN "POST" ELSE "GET"
       IN  IF rejected
           THEN /\ RaiseFrom(SDKError(<<>>, <<>>), FALSE)
                /\ UNCHANGED <<requests, returned>>
           ELSE \E resp \in FsResponses :
                      LET o == RequestJson(resp)
                      IN  /\ requests' = Append(requests, Request(method, call.fn, "caller", 0, <<>>, resp))
                          /\ IF o.ok
                             THEN /\ returned' = <<[context_id |-> o.context_id]>>
                                  /\ sdk_pc' = "done"
                                  /\ raised' = raised
                             ELSE RaiseFrom(o.exc, FALSE) /\ UNCHANGED returned
    /\ UNCHANGED <<call, sandbox_id, context_id, started, deleter, printed>>
    /\ UNCHANGED helperVars

SdkNext ==
    \/ Validate
    \/ Connect
    \/ Create
    \/ Exec
    \/ Finally
    \/ Return
    \/ DeleterRun
    \/ Delete
    \/ Fs

SdkSpec == SdkInit /\ [][SdkNext]_vars


---------------------------------------------------------------------------
(* Reading the log *)

IsPrefix(a, b) == Len(a) <= Len(b) /\ SubSeq(b, 1, Len(a)) = a

Last(q) == q[Len(q)]

(* the positions of the log holding a call of the given kind *)
Positions(kind) == {i \in 1..Len(log) : log[i].ev = kind}

(* the messages a channel handed to the helper, in order *)
Consumed(kind) == SelectSeq(log, LAMBDA e : e.ev = kind /\ e.ok)

(* a message was received on the given channel at position i of the log *)
ReceivedAt(kind, i) == log[i].ev = kind /\ log[i].ok

IsMatched(e) == e.msg.parent = MsgId

IsIdle(e) == e.msg.msg_type = "status" /\ e.msg.execution_state = "idle"

(* this step hands a message of the given channel to the helper *)
Receives(kind) ==
    /\ Len(log') = Len(log) + 1
    /\ Last(log').ev = kind
    /\ Last(log').ok

Executing == op = "execute"

HasResult == Executing /\ emitted # <<>>

Result == emitted[1]

(* the atoms of a text-carrying message *)
AtomsOf(m) ==
    {m.text[i] : i \in 1..Len(m.text)}
        \cup UNION {{m.traceback[i][j] : j \in 1..Len(m.traceback[i])} : i \in 1..Len(m.traceback)}
        \cup {m.evalue[i] : i \in 1..Len(m.evalue)}

(* the atoms of the messages of this kernel that answer another command *)
ForeignAtoms ==
    UNION {AtomsOf(m) : m \in {x \in kernel.events \cup kernel.replies : x.parent # MsgId}}

AtomsIn(chunks) == UNION {{chunks[i][j] : j \in 1..Len(chunks[i])} : i \in 1..Len(chunks)}

---------------------------------------------------------------------------
(* a step that receives an unmatched message changes nothing and loops *)
C1_DiscardStep ==
    /\ (Receives("iopub_msg") /\ Last(log').msg.parent # msg_id)
          => /\ UNCHANGED <<status, stdout_chunks, stderr_chunks, execution_count>>
             /\ pc' = "iopub_head"
    /\ (Receives("shell_msg") /\ Last(log').msg.parent # msg_id)
          => /\ UNCHANGED <<status, stdout_chunks, stderr_chunks, execution_count>>
             /\ pc' = "shell_head"

(* no atom of an unmatched message is in the accumulators or the result *)
C1_NoForeignText ==
    /\ AtomsIn(stdout_chunks) \cap ForeignAtoms = {}
    /\ AtomsIn(stderr_chunks) \cap ForeignAtoms = {}
    /\ HasResult =>
          /\ {Result.stdout[i] : i \in 1..Len(Result.stdout)} \cap ForeignAtoms = {}
          /\ {Result.stderr[i] : i \in 1..Len(Result.stderr)} \cap ForeignAtoms = {}

(* C1: in execute, an iopub event or a shell reply whose parent msg_id is   *)
(* not the id returned by client.execute is discarded: the step receiving   *)
(* it leaves status, stdout_chunks, stderr_chunks and execution_count       *)
(* unchanged and stays in the loop that received it, and no text of such a  *)
(* message is ever in the accumulators or in the printed result.            *)
C1_UnmatchedDiscarded == [][C1_DiscardStep]_vars /\ []C1_NoForeignText

(* an unmatched stream event and an unmatched error reply were received,    *)
(* and the result printed is that of the matched ones                       *)
C1_Witness ==
    /\ HasResult
    /\ \E i \in Positions("iopub_msg") :
          log[i].ok /\ ~IsMatched(log[i]) /\ log[i].msg.text # <<>>
    /\ \E i \in Positions("shell_msg") :
          log[i].ok /\ ~IsMatched(log[i]) /\ log[i].msg.traceback # <<>>
    /\ Result.status = "ok"

---------------------------------------------------------------------------
(* every get_shell_msg follows the matched idle and no iopub receive follows it *)
C2_ShellAfterIdle ==
    \A i \in Positions("get_shell_msg") :
        /\ \E j \in 1..(i - 1) :
              ReceivedAt("iopub_msg", j) /\ IsMatched(log[j]) /\ IsIdle(log[j])
        /\ \A k \in (i + 1)..Len(log) : log[k].ev \notin {"get_iopub_msg", "iopub_msg"}

(* the event loop leaves the shell queue alone; replies are taken from its head *)
C2_QueueStep ==
    /\ pc \in {"iopub_head", "iopub_wait"}
          => \/ shell' = shell
             \/ \E m \in kernel.replies : shell' = Append(shell, m)
    /\ Receives("shell_msg")
          => Last(log').msg = Head(shell) /\ shell' = Tail(shell)

(* C2: in every run of execute the first get_shell_msg comes after the      *)
(* event loop has consumed a matched idle status, and no get_iopub_msg      *)
(* follows it; while the event loop runs the shell queue is only added to,  *)
(* and a reply is taken from its head, so a reply delivered before the idle *)
(* status is the one consumed afterwards.                                   *)
C2_AckAfterEvents == []C2_ShellAfterIdle /\ [][C2_QueueStep]_vars

(* the event loop has just ended on the matched idle status, no reply has   *)
(* been asked for yet, and the matched reply is already waiting             *)
C2_Witness ==
    /\ pc = "shell_head"
    /\ Positions("get_shell_msg") = {}
    /\ shell # <<>>
    /\ Head(shell).parent = MsgId
    /\ ReceivedAt("iopub_msg", Len(log)) /\ IsMatched(Last(log)) /\ IsIdle(Last(log))

---------------------------------------------------------------------------
(* a result that is not a timeout has the matched idle, then the matched reply *)
C3_BothObserved ==
    (HasResult /\ Result.status # "timeout")
        => \E i \in Positions("iopub_msg") : \E j \in Positions("shell_msg") :
              /\ i < j
              /\ log[i].ok /\ IsMatched(log[i]) /\ IsIdle(log[i])
              /\ log[j].ok /\ IsMatched(log[j])

(* a message is handed over only before the deadline *)
C3_ConsumeStep ==
    (Receives("iopub_msg") \/ Receives("shell_msg")) => now < deadline

(* C3: execute prints a result whose status is not "timeout" only if it     *)
(* consumed a matched idle status on iopub and then a matched reply on      *)
(* shell, and every message is consumed before the deadline.                *)
C3_NeedsIdleAndAck == []C3_BothObserved /\ [][C3_ConsumeStep]_vars

(* execute has returned a result with the status of the reply *)
C3_Witness ==
    /\ HasResult
    /\ Result.status = "error"
    /\ pc = "done"
    /\ exc = NoExc

---------------------------------------------------------------------------
(* the matched messages each channel handed over, in order *)
MatchedReplies == SelectSeq(Consumed("shell_msg"), IsMatched)

MatchedEvents == SelectSeq(Consumed("iopub_msg"), IsMatched)

(* exactly stream(stdout, t), status(idle) and the reply (ok, n) were matched *)
C4_Scenario(t, n) ==
    /\ Len(MatchedEvents) = 2
    /\ MatchedEvents[1].msg = Stream(MsgId, "stdout", t)
    /\ MatchedEvents[2].msg = StatusEvent(MsgId, "idle")
    /\ Len(MatchedReplies) = 1
    /\ MatchedReplies[1].msg = ExecuteReply(MsgId, "ok", <<n>>, <<>>, <<>>)

(* C4: when execute does not time out, the status of the result is the      *)
(* status the matched reply carries; and the events stream(stdout, t),      *)
(* status(idle) followed by the reply (ok, execution_count n) give          *)
(* {status: ok, execution_count: n, stdout: t, stderr: ""}.                 *)
C4_StatusOfReply ==
    (HasResult /\ Result.status # "timeout") =>
        /\ Len(MatchedReplies) = 1
        /\ MatchedReplies[1].msg.status # Absent
              => Result.status = MatchedReplies[1].msg.status
        /\ \A n \in 0..9 :
              C4_Scenario(<<"5", "\n">>, n)
                  => Result = [status |-> "ok", execution_count |-> n,
                               stdout |-> <<"5", "\n">>, stderr |-> <<>>]

(* the scenario of the specification has run to its end *)
C4_Witness ==
    /\ HasResult
    /\ pc = "done"
    /\ exc = NoExc
    /\ C4_Scenario(<<"5", "\n">>, 3)

---------------------------------------------------------------------------
(* the try block has been left *)
Finished == pc \in {"finally", "done"}

(* get_iopub_msg or get_shell_msg raised Empty *)
DeadlinePassedInWait == Positions("iopub_empty") \cup Positions("shell_empty") # {}

(* C5: execute calls interrupt_kernel if and only if its status is          *)
(* "timeout": then exactly once, after the last receive and before          *)
(* stop_channels, and the notice is the last chunk of stderr_chunks;        *)
(* otherwise never, and stderr_chunks holds no notice.                      *)
C5_InterruptIffTimeout ==
    Executing =>
        /\ Cardinality(Positions("interrupt_kernel")) <= 1
        /\ Positions("interrupt_kernel") # {} => status = "timeout"
        /\ (Finished /\ (status = "timeout" \/ DeadlinePassedInWait)) =>
              /\ Cardinality(Positions("interrupt_kernel")) = 1
              /\ stderr_chunks # <<>>
              /\ Last(stderr_chunks) = TimeoutNotice(timeout_ms)
        /\ \A i \in Positions("interrupt_kernel") :
              /\ \A k \in 1..(i - 1) : log[k].ev # "stop_channels"
              /\ \A k \in (i + 1)..Len(log) : log[k].ev = "stop_channels"
        /\ status # "timeout" =>
              \A i \in 1..Len(stderr_chunks) : stderr_chunks[i] # TimeoutNotice(timeout_ms)
        /\ HasResult => (Result.status = "timeout" <=> Positions("interrupt_kernel") # {})

(* the deadline passed in the reply loop, after output was collected *)
C5_Witness ==
    /\ Executing
    /\ pc = "done"
    /\ Positions("shell_empty") # {}
    /\ Positions("interrupt_kernel") # {}
    /\ Len(stderr_chunks) >= 2
    /\ Result.status = "timeout"

---------------------------------------------------------------------------
(* a ends b *)
IsSuffix(a, b) == Len(a) <= Len(b) /\ SubSeq(b, Len(b) - Len(a) + 1, Len(b)) = a

(* the log entries of get_iopub_msg and get_shell_msg and of their outcomes *)
ReceiveCalls ==
    {"get_iopub_msg", "iopub_msg", "iopub_empty", "get_shell_msg", "shell_msg", "shell_empty"}

(* C6: with timeout_ms <= 0, once execute has sent its command it makes no  *)
(* receive on either channel, and it returns a result with status           *)
(* "timeout" whose stderr ends with the notice.                             *)
C6_ElapsedBound ==
    (Executing /\ timeout_ms <= 0 /\ msg_id # NoId) =>
        /\ pc \notin {"iopub_wait", "shell_wait"}
        /\ \A i \in 1..Len(log) : log[i].ev \notin ReceiveCalls
        /\ pc = "done" =>
              /\ exc = NoExc
              /\ Len(emitted) = 1
              /\ Result.status = "timeout"
              /\ IsSuffix(TimeoutNotice(timeout_ms), Result.stderr)

(* execute has returned with a timeout of zero *)
C6_Witness ==
    /\ Executing
    /\ timeout_ms = 0
    /\ pc = "done"
    /\ HasResult
    /\ Result.status = "timeout"

---------------------------------------------------------------------------
(* the concatenation of F over the elements of q *)
RECURSIVE FlatMap(_, _)
FlatMap(F(_), q) ==
    IF q = <<>> THEN <<>> ELSE F(Head(q)) \o FlatMap(F, Tail(q))

(* e is a stream event, named "stderr" or not *)
IsStreamTo(e, stderr) ==
    /\ e.msg.msg_type = "stream"
    /\ (e.msg.name = "stderr") = stderr

(* what a matched event contributes to stdout *)
StdoutText(e) == IF IsStreamTo(e, FALSE) THEN e.msg.text ELSE <<>>

(* the chunk a matched stderr stream event contributes *)
StderrStreamChunk(e) == IF IsStreamTo(e, TRUE) THEN <<e.msg.text>> ELSE <<>>

(* the chunks of stderr_chunks that stream events put there *)
StreamChunksOfStderr ==
    SelectSeq(stderr_chunks, LAMBDA c : \E m \in kernel.events : m.msg_type = "stream" /\ m.text = c)

(* each accumulator is a prefix of its next value *)
C7_AppendStep ==
    /\ IsPrefix(stdout_chunks, stdout_chunks')
    /\ IsPrefix(stderr_chunks, stderr_chunks')

(* the texts of each stream are in the accumulator in the order of receipt *)
C7_ReceiptOrder ==
    Executing =>
        /\ StrJoin(stdout_chunks) = FlatMap(StdoutText, MatchedEvents)
        /\ StreamChunksOfStderr = FlatMap(StderrStreamChunk, MatchedEvents)
        /\ HasResult => Result.stdout = FlatMap(StdoutText, MatchedEvents)

(* C7: stdout_chunks and stderr_chunks only grow at their end, and the      *)
(* result holds the texts of the matched stream events of each stream in    *)
(* the order of their receipt.                                              *)
C7_AppendOnlyInOrder == [][C7_AppendStep]_vars /\ []C7_ReceiptOrder

(* two different stdout texts with a stderr text received between them *)
C7_Witness ==
    /\ HasResult
    /\ Len(MatchedEvents) = 3
    /\ MatchedEvents[1].msg = Stream(MsgId, "stdout", <<"5", "\n">>)
    /\ MatchedEvents[2].msg = Stream(MsgId, "stderr", <<"w">>)
    /\ MatchedEvents[3].msg = Stream(MsgId, "stdout", <<"6">>)
    /\ Result.stdout = <<"5", "\n", "6">>

---------------------------------------------------------------------------
(* C8: in probe, execute and shutdown, once the client exists                *)
(* stop_channels is called exactly once on every way out, and it is the     *)
(* last call made on the client.                                            *)
C8_ClosedOnceLast ==
    /\ pc # "done" => Positions("stop_channels") = {}
    /\ pc = "done" =>
          IF log = <<>>
          THEN exc = "OSError"
          ELSE /\ Cardinality(Positions("stop_channels")) = 1
               /\ Last(log).ev = "stop_channels"

(* a receive raised in the reply loop and the channels were stopped *)
C8_Witness ==
    /\ pc = "done"
    /\ exc = "TransportError"
    /\ \E i \in Positions("shell_msg") : ~log[i].ok
    /\ Last(log).ev = "stop_channels"

---------------------------------------------------------------------------
(* C9: when execute has timed out, a failure of interrupt_kernel or of      *)
(* stop_channels does not leave the function: it still returns the result   *)
(* with status "timeout", the accumulated output and the notice.            *)
C9_CleanupSwallowed ==
    (Executing /\ pc = "done" /\ (status = "timeout" \/ DeadlinePassedInWait)) =>
        /\ exc = NoExc
        /\ Len(emitted) = 1
        /\ Result.status = "timeout"
        /\ Result.execution_count = execution_count
        /\ Result.stdout = StrJoin(stdout_chunks)
        /\ Result.stderr = StrJoin(stderr_chunks)
        /\ Last(stderr_chunks) = TimeoutNotice(timeout_ms)

(* both the interrupt and the close have failed after output was collected *)
C9_Witness ==
    /\ Executing
    /\ pc = "done"
    /\ \E i \in Positions("interrupt_kernel") : ~log[i].ok
    /\ \E i \in Positions("stop_channels") : ~log[i].ok
    /\ stdout_chunks # <<>>
    /\ HasResult

---------------------------------------------------------------------------
(* what a matched event contributes to stderr *)
StderrText(e) ==
    IF IsStreamTo(e, TRUE) THEN e.msg.text
    ELSE IF e.msg.msg_type # "error" THEN <<>>
    ELSE IF e.msg.traceback # <<>> THEN JoinWith(NL, e.msg.traceback) \o NL
    ELSE IF e.msg.evalue # <<>> THEN e.msg.evalue \o NL
    ELSE <<>>

(* the matched execute_input events carrying a count *)
MatchedInputs ==
    SelectSeq(MatchedEvents,
              LAMBDA e : e.msg.msg_type = "execute_input" /\ e.msg.execution_count # <<>>)

(* the count of the last of them, or the initial 0 *)
LastTrackedCount ==
    IF MatchedInputs = <<>> THEN 0 ELSE Last(MatchedInputs).msg.execution_count[1]

(* C10: a result with status "timeout" keeps the partial output: stdout is  *)
(* the text of the matched stream events consumed, stderr the text of the   *)
(* matched stderr stream events and error events consumed, in order,        *)
(* followed by the notice, and execution_count the last one tracked.        *)
C10_PartialOutputKept ==
    (HasResult /\ Result.status = "timeout") =>
        /\ Result.stdout = FlatMap(StdoutText, MatchedEvents)
        /\ Result.stderr = FlatMap(StderrText, MatchedEvents) \o TimeoutNotice(timeout_ms)
        /\ Result.execution_count = LastTrackedCount

(* the deadline passed in the event loop after a stream event and an error  *)
(* event had been consumed                                                  *)
C10_Witness ==
    /\ HasResult
    /\ Result.status = "timeout"
    /\ Positions("iopub_empty") # {}
    /\ \E i \in 1..Len(MatchedEvents) : MatchedEvents[i].msg.msg_type = "stream"
    /\ \E i \in 1..Len(MatchedEvents) : MatchedEvents[i].msg.msg_type = "error"

---------------------------------------------------------------------------
(* a is a contiguous part of b *)
Contains(a, b) == \E i \in 1..(Len(b) - Len(a) + 1) : SubSeq(b, i, i + Len(a) - 1) = a

(* the matched error events consumed *)
MatchedErrors == SelectSeq(MatchedEvents, LAMBDA e : e.msg.msg_type = "error")

(* the matched idle signal was consumed *)
IdleConsumed == \E i \in 1..Len(MatchedEvents) : IsIdle(MatchedEvents[i])

(* the text an error message is reported with: its traceback, the lines *)
(* joined by newlines, or its evalue when it has no traceback           *)
ReportedError(m) == IF m.traceback # <<>> THEN JoinWith(NL, m.traceback) ELSE m.evalue

(* the matched reply consumed has the given status *)
AckedWith(st) == MatchedReplies # <<>> /\ Last(MatchedReplies).msg.status = st

(* C11: when execute consumed a matched error event (with a traceback, or  *)
(* with an evalue only), then the matched idle signal, then a matched reply *)
(* of status "error", the result has status "error" and its stderr contains *)
(* the traceback of each such event, or its evalue when it has no           *)
(* traceback.                                                               *)
C11_ErrorReported ==
    (HasResult /\ MatchedErrors # <<>> /\ IdleConsumed /\ AckedWith("error")) =>
        /\ Result.status = "error"
        /\ \A i \in 1..Len(MatchedErrors) :
              Contains(ReportedError(MatchedErrors[i].msg), Result.stderr)

(* an error event with a traceback, the idle signal and an error reply were *)
(* consumed and the result printed                                          *)
C11_Witness ==
    /\ HasResult
    /\ IdleConsumed
    /\ AckedWith("error")
    /\ \E i \in 1..Len(MatchedErrors) : MatchedErrors[i].msg.traceback = Traceback
    /\ Result.status = "error"
    /\ Contains(JoinWith(NL, Traceback), Result.stderr)

---------------------------------------------------------------------------
(* the matched reply consumed carries an execution count *)
AckCarriesCount ==
    MatchedReplies # <<>> /\ Last(MatchedReplies).msg.execution_count # <<>>

(* the count the messages consumed so far determine *)
ExpectedCount ==
    IF AckCarriesCount THEN Last(MatchedReplies).msg.execution_count[1] ELSE LastTrackedCount

(* C12: execution_count is the number of the matched reply when one was    *)
(* consumed and carries a number, otherwise the number of the last matched *)
(* execute_input event consumed, otherwise 0; messages answering another   *)
(* command never change it.  The result reports that value.                *)
C12_CountTracked ==
    Executing =>
        /\ execution_count = ExpectedCount
        /\ HasResult => Result.execution_count = ExpectedCount

(* the matched reply carried no count, and the result reports the count of *)
(* the execute_input event consumed before it                              *)
C12_Witness ==
    /\ HasResult
    /\ MatchedReplies # <<>>
    /\ ~AckCarriesCount
    /\ MatchedInputs # <<>>
    /\ Result.execution_count = Last(MatchedInputs).msg.execution_count[1]
    /\ Result.execution_count # 0

---------------------------------------------------------------------------
(* the three values the output record of execute may carry as status *)
ResultStatuses == {"ok", "error", "timeout"}

(* C13: in every result execute prints, status is one of "ok", "error" and *)
(* "timeout", whatever the status field of the matched reply is.           *)
C13_StatusInContract == HasResult => Result.status \in ResultStatuses

---------------------------------------------------------------------------
(* the step in which execute computes its deadline and builds the client *)
StartsExecute == Executing /\ pc = "init" /\ pc' = "start_channels"

(* the step in which client.execute returns the msg_id *)
SendsExecute == Executing /\ pc = "send" /\ pc' = "iopub_head"

(* C14 as stated: the deadline of execute is recorded when the command is  *)
(* sent, deadline = send time + timeout, so that the time spent waiting    *)
(* for readiness is not deducted.                                          *)
C14_DeadlineAtSend == [][SendsExecute => deadline' = now' + timeout_ms]_vars

(* C14, amended: the deadline of execute is recorded when the operation    *)
(* starts, deadline = start time + timeout, before the channels are opened *)
(* and before the readiness wait, and no later step changes it: the time   *)
(* spent waiting for readiness is deducted from the time left for the      *)
(* events and the reply.                                                   *)
C14_DeadlineAtStart ==
    [][/\ StartsExecute => deadline' = now + timeout_ms
       /\ (Executing /\ pc # "init") => deadline' = deadline
       /\ SendsExecute => deadline' - now' <= timeout_ms]_vars

(* the readiness wait of an execute with a positive timeout has used up *)
(* the whole budget before the command is sent                          *)
C14_Witness ==
    /\ Executing
    /\ pc = "send"
    /\ timeout_ms > 0
    /\ now > 0
    /\ Remaining(deadline, now) = 0

---------------------------------------------------------------------------
(* wait_for_ready raised: the bound elapsed before the kernel was ready *)
NeverReady == \E i \in Positions("wait_for_ready") : ~log[i].ok

(* the function has returned or raised *)
Returned == pc = "done"

(* the last call made was stop_channels *)
ClosedLast == log # <<>> /\ Last(log).ev = "stop_channels"

(* C15 as stated: when the readiness wait of execute elapses, execute      *)
(* finalizes with status "timeout": it attempts the interrupt and prints a *)
(* result of status "timeout".                                             *)
C15_ReadyTimeoutFinalizes ==
    (Executing /\ NeverReady /\ Returned) =>
        /\ Positions("interrupt_kernel") # {}
        /\ HasResult
        /\ Result.status = "timeout"

(* C15, amended: when the readiness wait of execute elapses, execute fails *)
(* with the RuntimeError of wait_for_ready: it sends neither the execute   *)
(* request nor an interrupt, never sets status "timeout", prints no        *)
(* result, and closes the channels before the error reaches the caller.    *)
C15_ReadyTimeoutRaises ==
    (Executing /\ NeverReady) =>
        /\ Positions("execute") = {}
        /\ Positions("interrupt_kernel") = {}
        /\ status # "timeout"
        /\ emitted = <<>>
        /\ exc = "RuntimeError"
        /\ pc \in {"finally", "done"}
        /\ Returned => ClosedLast

(* execute has raised after a readiness wait that lasted its whole bound *)
C15_Witness ==
    /\ Executing
    /\ NeverReady
    /\ Returned
    /\ exc = "RuntimeError"
    /\ emitted = <<>>
    /\ ClosedLast

---------------------------------------------------------------------------
(* this step hands a matched stream event to the event loop *)
ReceivesMatchedStream ==
    /\ Receives("iopub_msg")
    /\ IsMatched(Last(log'))
    /\ Last(log').msg.msg_type = "stream"

(* this step appends the text just received to stdout_chunks only *)
TextToStdout ==
    /\ stdout_chunks' = Append(stdout_chunks, Last(log').msg.text)
    /\ stderr_chunks' = stderr_chunks

(* this step appends the text just received to stderr_chunks only *)
TextToStderr ==
    /\ stderr_chunks' = Append(stderr_chunks, Last(log').msg.text)
    /\ stdout_chunks' = stdout_chunks

(* C16 as stated: the text of a matched stream event goes to stdout when   *)
(* the name of the stream is the error-stream marker "stderr", and to      *)
(* stderr otherwise.                                                       *)
C16_StderrNameToStdout ==
    [][ReceivesMatchedStream =>
          IF Last(log').msg.name = "stderr" THEN TextToStdout ELSE TextToStderr]_vars

(* C16, amended: the text of a matched stream event goes to stderr when    *)
(* the name of the stream is the error-stream marker "stderr", and to      *)
(* stdout otherwise.                                                       *)
C16_StderrNameToStderr ==
    [][ReceivesMatchedStream =>
          IF Last(log').msg.name = "stderr" THEN TextToStderr ELSE TextToStdout]_vars

(* a stream event named "stderr" and one named "stdout" were consumed and *)
(* each text is in the accumulator of its name                            *)
C16_Witness ==
    /\ Executing
    /\ \E i \in 1..Len(MatchedEvents) : MatchedEvents[i].msg = Stream(MsgId, "stderr", <<"w">>)
    /\ \E i \in 1..Len(MatchedEvents) : MatchedEvents[i].msg = Stream(MsgId, "stdout", <<"6">>)
    /\ stderr_chunks = << <<"w">> >>
    /\ stdout_chunks = << <<"6">> >>

---------------------------------------------------------------------------
(* the matched stream events consumed whose name is not "stderr" *)
DefaultStreams == SelectSeq(MatchedEvents, LAMBDA e : IsStreamTo(e, FALSE))

IsChunkOf(t, chunks) == \E j \in 1..Len(chunks) : chunks[j] = t

(* C17: the text of a matched stream event whose name is not exactly       *)
(* "stderr" (another name, or no name) is a chunk of stdout_chunks and not *)
(* of stderr_chunks, and stdout_chunks holds one chunk for each such event. *)
C17_DefaultToStdout ==
    Executing =>
        /\ Len(stdout_chunks) = Len(DefaultStreams)
        /\ \A i \in 1..Len(DefaultStreams) :
              /\ stdout_chunks[i] = DefaultStreams[i].msg.text
              /\ ~IsChunkOf(DefaultStreams[i].msg.text, stderr_chunks)

(* a stream event without a name was consumed and the result shows its *)
(* text in stdout and nothing in stderr                                *)
C17_Witness ==
    /\ HasResult
    /\ \E i \in 1..Len(DefaultStreams) : DefaultStreams[i].msg.name = Absent
    /\ Result.stdout = <<"n">>
    /\ Result.stderr = <<>>

---------------------------------------------------------------------------
(* start_channels returned *)
ChannelsOpened == \E i \in Positions("start_channels") : log[i].ok

(* wait_for_ready returned: the kernel reported ready *)
ReadyReported == \E i \in Positions("wait_for_ready") : log[i].ok

(* client.shutdown raised *)
ShutdownSendFailed == \E i \in Positions("shutdown") : ~log[i].ok

(* C18: once start_channels has returned, shutdown never raises and        *)
(* returns {"ok": true}: after a readiness wait that failed it still calls *)
(* client.shutdown, exactly once, and whether that call fails or not it    *)
(* prints the payload and closes the channels last.                        *)
C18_ShutdownAlwaysOk ==
    (op = "shutdown" /\ ChannelsOpened) =>
        /\ exc = NoExc
        /\ pc \in {"finally", "done"} =>
              /\ Cardinality(Positions("shutdown")) = 1
              /\ emitted = <<OkPayload>>
        /\ Returned => ClosedLast

(* shutdown returned its payload although the kernel never became ready *)
(* and client.shutdown raised                                           *)
C18_Witness ==
    /\ op = "shutdown"
    /\ NeverReady
    /\ ShutdownSendFailed
    /\ Returned
    /\ ClosedLast
    /\ exc = NoExc
    /\ emitted = <<OkPayload>>

---------------------------------------------------------------------------
(* no request was sent to the kernel *)
NoCommandSent ==
    Positions("execute") \cup Positions("interrupt_kernel") \cup Positions("shutdown") = {}

(* C19: no step of probe sends an execute, interrupt or shutdown request,  *)
(* and once wait_for_ready has reported the kernel ready probe waits no    *)
(* longer: it prints {"ok": true} and closes the channels with no time     *)
(* passing, whatever is left of the bound.                                 *)
C19_ProbeSilentAndPrompt ==
    [][op = "probe" =>
          /\ NoCommandSent'
          /\ ReadyReported =>
                /\ now' = now
                /\ emitted' = <<OkPayload>>
                /\ exc' = NoExc]_vars

(* probe returned {"ok": true} before the bound of its wait had elapsed *)
C19_Witness ==
    /\ op = "probe"
    /\ ReadyReported
    /\ Returned
    /\ ClosedLast
    /\ emitted = <<OkPayload>>
    /\ now < wait_until
    /\ NoCommandSent

---------------------------------------------------------------------------
(* C20: when the bound elapses before the kernel reports ready, probe      *)
(* fails with the error of wait_for_ready: it prints no payload, and the   *)
(* channels are closed before the error reaches the caller.                *)
C20_ProbeFailsUnready ==
    (op = "probe" /\ NeverReady) =>
        /\ now >= wait_until
        /\ emitted = <<>>
        /\ exc = "RuntimeError"
        /\ pc \in {"finally", "done"}
        /\ Returned => ClosedLast

(* probe has raised after the bound elapsed, the channels closed *)
C20_Witness ==
    /\ op = "probe"
    /\ timeout_ms > 0
    /\ NeverReady
    /\ Returned
    /\ ClosedLast
    /\ exc = "RuntimeError"
    /\ emitted = <<>>

---------------------------------------------------------------------------
(* the number of calls of the given kind made so far *)
Calls(kind) == Cardinality(Positions(kind))

(* C21: one run of execute calls client.execute at most once and          *)
(* interrupt_kernel at most once, whatever messages arrive and whether it *)
(* times out or not.                                                      *)
C21_NoRetries ==
    Executing =>
        /\ Calls("execute") <= 1
        /\ Calls("interrupt_kernel") <= 1

(* execute timed out after it had consumed messages: one request and one *)
(* interrupt were sent                                                   *)
C21_Witness ==
    /\ HasResult
    /\ Result.status = "timeout"
    /\ Consumed("iopub_msg") # <<>>
    /\ Calls("execute") = 1
    /\ Calls("interrupt_kernel") = 1

---------------------------------------------------------------------------
(* Reading a call of the SDK *)

(* the requests issued on the given route *)
RequestsTo(route) == SelectSeq(requests, LAMBDA r : r.route = route)

(* the function has returned or raised, or is about to *)
Leaving == sdk_pc \in {"return", "done"}

(* sandbox.context.create returned a Context *)
ContextCreated == context_id # NoValue

(* context.exec raised before it sent anything *)
ExecRejected == ContextCreated /\ Leaving /\ RequestsTo("execute") = <<>>

(* C22: in code_execute the deletion thread is started exactly once when   *)
(* sandbox.context.create succeeded, whether context.exec returned or      *)
(* raised (a rejected timeout or code included), and never when the        *)
(* validation of sandbox_id or code, the connect or the creation failed.   *)
C22_DeletionStartedOnce ==
    (call.fn = "code_execute") =>
        /\ started <= 1
        /\ (ContextCreated /\ Leaving) => started = 1
        /\ ~ContextCreated => (started = 0 /\ deleter = "unstarted")
        /\ Len(RequestsTo("context")) <= started

(* context.exec rejected a timeout of 99 ms after the context was created: *)
(* code_execute raises and the deletion thread was started once            *)
C22_Witness ==
    /\ call.fn = "code_execute"
    /\ call.timeout_ms = MinTimeoutMs - 1
    /\ ExecRejected
    /\ sdk_pc = "done"
    /\ raised = SDKError(<<>>, <<>>)
    /\ started = 1

---------------------------------------------------------------------------
(* this step is the run of the deletion thread *)
DeleterSteps == deleter = "started" /\ deleter' # "started"

(* the line the deletion thread is to print for a failed deletion *)
NoticeFor(e) ==
    IF e.type = "SDKError"
    THEN <<"Failed to delete context asynchronously">>
    ELSE <<"Unexpected error during async context deletion">>

(* C23: the deletion runs on its own thread, at any point after it was     *)
(* started, before or after code_execute returns.  Its step never changes  *)
(* the value code_execute returns, the exception it raises or its          *)
(* position; a deletion that fails, with SDKError or with another          *)
(* exception, ends the thread normally with one line printed to stderr.    *)
C23_DeletionFailureContained ==
    [][DeleterSteps =>
          /\ returned' = returned
          /\ raised' = raised
          /\ sdk_pc' = sdk_pc
          /\ deleter' = "done"
          /\ LET o == RequestJson(requests'[Len(requests')].answer)
             IN  printed' = IF o.ok THEN printed ELSE printed \o NoticeFor(o.exc)]_vars

(* the deletion failed with an exception that is not an SDKError before   *)
(* code_execute returned its result                                       *)
C23_Witness ==
    /\ call.fn = "code_execute"
    /\ sdk_pc = "return"
    /\ returned # NoValue
    /\ raised = NoRaise
    /\ deleter = "done"
    /\ requests[Len(requests)].answer = ReadError
    /\ printed = <<"Unexpected error during async context deletion">>

---------------------------------------------------------------------------
(* C24: code_execute, fs_tree, fs_file_get and fs_file_write raise         *)
(* ValueError when sandbox_id is empty or only whitespace, before a        *)
(* Sandbox is connected, a context created or a request issued.            *)
C24_BlankSandboxIdRejected ==
    (call.fn \in BridgeFns /\ Strip(call.sandbox_id) = <<>>) =>
        /\ sdk_pc \in {"validate", "done"}
        /\ sdk_pc = "done" => raised = ValueError
        /\ sandbox_id = NoValue
        /\ context_id = NoValue
        /\ requests = <<>>
        /\ returned = NoValue
        /\ started = 0

(* fs_file_write raised ValueError for a sandbox_id of one space *)
C24_Witness ==
    /\ call.fn = "fs_file_write"
    /\ call.sandbox_id = <<" ">>
    /\ sdk_pc = "done"
    /\ raised = ValueError
    /\ requests = <<>>

---------------------------------------------------------------------------
(* Sandbox.connect has returned in the session that calls it directly *)
Connected == call.fn = "sdk_session" /\ sdk_pc # "connect"

(* C25 as stated, for a configured SDK: Sandbox.connect with a non-blank   *)
(* id returns a Sandbox carrying that id, without a request.               *)
C25_ConnectKeepsId ==
    (Connected /\ call.configured /\ Strip(call.sandbox_id) # <<>>) =>
        /\ sandbox_id = call.sandbox_id
        /\ sdk_pc = "create" => requests = <<>>

(* C25, amended: once the SDK is configured, Sandbox.connect with a        *)
(* non-blank id returns a Sandbox carrying the id stripped of surrounding  *)
(* whitespace, without a request; without configuration it raises          *)
(* SDKError, without a request.  Only the later operations issue requests, *)
(* each with the stripped id as its session.                               *)
C25_ConnectIssuesNoRequest ==
    (Connected /\ Strip(call.sandbox_id) # <<>>) =>
        /\ call.configured =>
              /\ sandbox_id = Strip(call.sandbox_id)
              /\ sdk_pc = "create" => (requests = <<>> /\ raised = NoRaise)
        /\ ~call.configured =>
              /\ sdk_pc = "done"
              /\ raised = SDKError(<<>>, <<>>)
              /\ requests = <<>>
        /\ \A i \in 1..Len(requests) :
              /\ requests[i].route \in {"contexts", "execute", "context"}
              /\ requests[i].session = Strip(call.sandbox_id)

(* connect has returned a Sandbox for an id with spaces around it, and no  *)
(* request was issued                                                      *)
C25_Witness ==
    /\ call.fn = "sdk_session"
    /\ call.sandbox_id = <<" ", "s", " ">>
    /\ sdk_pc = "create"
    /\ sandbox_id = <<"s">>
    /\ requests = <<>>

---------------------------------------------------------------------------
(* code_execute has returned a result *)
Succeeded == call.fn = "code_execute" /\ sdk_pc = "done" /\ returned # NoValue

(* a JSON value that is a string with something else than whitespace *)
NonBlank(v) == v.t = "str" /\ Strip(v.s) # <<>>

(* the context_id member of the answer to the execute request *)
AnsweredContextId == RequestsTo("execute")[1].answer.body.context_id

(* C26: the result of a successful code_execute carries a non-blank        *)
(* context_id: the one of the execute response when that is non-blank,     *)
(* else the id of the context created for the call.                        *)
C26_ContextIdFilled ==
    Succeeded =>
        /\ NonBlank(returned[1].context_id)
        /\ returned[1].context_id =
              IF NonBlank(AnsweredContextId) THEN AnsweredContextId ELSE JStr(context_id)

---------------------------------------------------------------------------
(* this step issues a request of the caller that an HTTP error answers *)
HttpErrorAnswered ==
    /\ Len(requests') = Len(requests) + 1
    /\ requests'[Len(requests')].by = "caller"
    /\ requests'[Len(requests')].answer.net = "http_error"

(* the code member of a JSON error body when it is an integer and not a *)
(* boolean, else None                                                   *)
IntegerCode(body) ==
    IF body.shape = "object" /\ body.code.t = "int" THEN <<body.code.n>> ELSE <<>>

(* C27: an operation whose request is answered by an HTTP error raises     *)
(* SDKError with the status of the response as http_status and, as code,   *)
(* the code member of the JSON error body when that is an integer (None    *)
(* for a body that is not a JSON object, and for a code that is absent, a  *)
(* boolean, a string or a float); it returns no result.                    *)
C27_HttpErrorRaises ==
    [][HttpErrorAnswered =>
          LET answer == requests'[Len(requests')].answer
          IN  /\ raised' = SDKError(<<answer.status>>, IntegerCode(answer.body))
              /\ returned' = returned
              /\ sdk_pc' \in {"finally", "done"}]_vars

(* an error body whose code is the boolean true gave an SDKError without *)
(* code                                                                  *)
C27_Witness ==
    /\ requests # <<>>
    /\ requests[Len(requests)].answer = HttpError(404, ErrorBody(JBool(TRUE)))
    /\ requests[Len(requests)].by = "caller"
    /\ raised = SDKError(<<404>>, <<>>)
    /\ returned = NoValue

---------------------------------------------------------------------------
(* the arguments Context.exec rejects *)
ExecArgumentsBad(code, t) == Strip(code) = <<>> \/ t < MinTimeoutMs \/ t > MaxTimeoutMs

(* Context.exec has been called and has returned or raised *)
ExecCalled == ContextCreated /\ sdk_pc \in {"finally", "return", "delete", "done"}

(* C29: Context.exec raises SDKError for a blank code or a timeout_ms      *)
(* outside [100, 300000] without sending a request; code_execute hands it  *)
(* timeout_ms when that is positive and 30000 otherwise, so that a         *)
(* positive timeout below 100 is rejected after the context was created    *)
(* (and its deletion started), and a timeout of 0 or less is sent as       *)
(* 30000.                                                                  *)
C29_ExecArgumentsChecked ==
    /\ (call.fn = "sdk_session" /\ ExecCalled /\ ExecArgumentsBad(call.code, call.timeout_ms)) =>
          /\ RequestsTo("execute") = <<>>
          /\ raised = SDKError(<<>>, <<>>)
          /\ returned = NoValue
    /\ \A i \in 1..Len(requests) :
          requests[i].route = "execute" =>
              /\ ~ExecArgumentsBad(requests[i].code, requests[i].timeout_ms)
              /\ requests[i].timeout_ms =
                    IF call.fn = "code_execute" /\ call.timeout_ms <= 0
                    THEN DefaultExecTimeoutMs ELSE call.timeout_ms
    /\ (call.fn = "code_execute" /\ ExecCalled) =>
          IF call.timeout_ms > 0 /\ ExecArgumentsBad(call.code, call.timeout_ms)
          THEN /\ RequestsTo("execute") = <<>>
               /\ Len(RequestsTo("contexts")) = 1
               /\ raised = SDKError(<<>>, <<>>)
          ELSE Len(RequestsTo("execute")) = 1

(* code_execute with timeout_ms = 99 raised SDKError after it had created *)
(* the context, and sent no execute request                               *)
C29_Witness ==
    /\ call.fn = "code_execute"
    /\ call.timeout_ms = MinTimeoutMs - 1
    /\ sdk_pc = "done"
    /\ Len(RequestsTo("contexts")) = 1
    /\ RequestsTo("execute") = <<>>
    /\ raised = SDKError(<<>>, <<>>)
    /\ deleter # "unstarted"

---------------------------------------------------------------------------
(* client.execute has returned the msg_id *)
Sent == Executing /\ msg_id # NoId

(* the time left before the deadline *)
TimeLeft == Remaining(deadline, now)

(* a wait of the loops ends at the deadline at the latest *)
WaitWithinDeadline == (Sent /\ Listening) => (now <= wait_until /\ wait_until <= deadline)

(* once the request is sent the deadline stays and the time left shrinks *)
TimeLeftShrinks ==
    Sent => (deadline' = deadline /\ TimeLeft' <= TimeLeft /\ TimeLeft' >= 0)

---------------------------------------------------------------------------
(* the event loop hands over an idle status of another command, or of none *)
ReceivesForeignIdle ==
    /\ Executing
    /\ Receives("iopub_msg")
    /\ IsIdle(Last(log'))
    /\ ~IsMatched(Last(log'))

(* such an event changes nothing and the loop asks for the next event *)
ForeignIdleDiscarded ==
    ReceivesForeignIdle
        => /\ pc' = "iopub_head"
           /\ UNCHANGED <<status, shell_status, stdout_chunks, stderr_chunks,
                          execution_count>>

(* the event loop is left by the matched idle status or by the timeout *)
LoopLeftByIdleOrTimeout ==
    (Executing /\ pc \in {"shell_head", "shell_wait", "finalize"} /\ ~IdleConsumed)
        => TimedOut(status)

(* a result printed without the matched idle status is a timeout *)
NoIdleIsTimeout == (HasResult /\ ~IdleConsumed) => Result.status = "timeout"

(* C30: in execute an idle status event ends the event loop only when its   *)
(* parent msg_id is the id of the command: one whose parent msg_id is       *)
(* absent or another command's is discarded and the loop goes on, and when  *)
(* no idle status tagged with the command's id is consumed before the       *)
(* deadline the loop is left by the timeout and the result printed has      *)
(* status "timeout".                                                        *)
C30_OnlyOwnIdleEnds ==
    /\ [][ForeignIdleDiscarded]_vars
    /\ [](LoopLeftByIdleOrTimeout)
    /\ [](NoIdleIsTimeout)

(* idle statuses of no command and of another command were handed over,     *)
(* none of the command's own, and the result printed is a timeout           *)
C30_Witness ==
    /\ HasResult
    /\ pc = "done"
    /\ \E i \in Positions("iopub_msg") :
          log[i].ok /\ IsIdle(log[i]) /\ log[i].msg.parent \in {NoId, OtherId}
    /\ ~IdleConsumed
    /\ Result.status = "timeout"

---------------------------------------------------------------------------
(* the chunk a traceback is reported as: its lines joined by newlines, and *)
(* a final newline                                                         *)
TracebackChunk(m) == JoinWith(NL, m.traceback) \o NL

(* this step hands the matched reply to the helper *)
ReceivesMatchedReply ==
    /\ Executing
    /\ Receives("shell_msg")
    /\ IsMatched(Last(log'))

(* a matched reply of status "error" with a traceback adds one chunk at the *)
(* end of stderr_chunks; a matched reply of another status adds nothing     *)
ReplyAppendsAfterEvents ==
    ReceivesMatchedReply =>
        LET m == Last(log').msg IN
           /\ (m.status = "error" /\ m.traceback # <<>>)
                 => stderr_chunks' = Append(stderr_chunks, TracebackChunk(m))
           /\ m.status # "error" => stderr_chunks' = stderr_chunks

(* the matched events consumed that add a chunk to stderr_chunks *)
EventsOnStderr ==
    SelectSeq(MatchedEvents,
              LAMBDA e : \/ e.msg.msg_type = "error"
                         \/ e.msg.msg_type = "stream" /\ e.msg.name = "stderr")

(* one error event with a traceback, then a reply of status "error" with a  *)
(* traceback, and nothing else for stderr                                   *)
ErrorOnBothChannels ==
    /\ Len(EventsOnStderr) = 1
    /\ EventsOnStderr[1].msg.msg_type = "error"
    /\ EventsOnStderr[1].msg.traceback # <<>>
    /\ AckedWith("error")
    /\ Last(MatchedReplies).msg.traceback # <<>>

(* the result then holds the two tracebacks, the event's first *)
BothTracebacksReported ==
    (HasResult /\ Result.status # "timeout" /\ ErrorOnBothChannels) =>
        /\ stderr_chunks = << TracebackChunk(EventsOnStderr[1].msg),
                              TracebackChunk(Last(MatchedReplies).msg) >>
        /\ Result.stderr = TracebackChunk(EventsOnStderr[1].msg)
                              \o TracebackChunk(Last(MatchedReplies).msg)

(* C31: when execute consumed a matched error event with a traceback and    *)
(* then a matched reply of status "error" with a traceback, stderr_chunks   *)
(* holds two entries, the traceback of the event followed by the traceback  *)
(* of the reply, and the stderr of the result is the two joined; the step   *)
(* consuming a matched reply whose status is not "error" leaves             *)
(* stderr_chunks as it was.                                                 *)
C31_ErrorReportedTwice == [][ReplyAppendsAfterEvents]_vars /\ [](BothTracebacksReported)

(* the error was reported on both channels and the result printed *)
C31_Witness ==
    /\ HasResult
    /\ pc = "done"
    /\ Result.status = "error"
    /\ ErrorOnBothChannels
    /\ Len(stderr_chunks) = 2

---------------------------------------------------------------------------
(* this step calls or completes a receive on iopub *)
TouchesIopub ==
    /\ Len(log') = Len(log) + 1
    /\ Last(log').ev \in {"get_iopub_msg", "iopub_msg", "iopub_empty"}

(* once the matched idle status is consumed, no step receives on iopub:     *)
(* what the kernel publishes stays queued until stop_channels drops it,     *)
(* stdout_chunks is final, and stderr_chunks and execution_count change     *)
(* only by the reply or by the end of the call                              *)
QuietAfterIdle ==
    (Executing /\ IdleConsumed) =>
        /\ ~TouchesIopub
        /\ IsPrefix(iopub, iopub') \/ (pc = "finally" /\ iopub' = <<>>)
        /\ stdout_chunks' = stdout_chunks
        /\ (stderr_chunks' # stderr_chunks \/ execution_count' # execution_count)
              => (ReceivesMatchedReply \/ pc = "finalize")

(* the matched idle status is the last message iopub handed over *)
IdleIsLastEvent ==
    (Executing /\ IdleConsumed) =>
        LET e == Last(Consumed("iopub_msg")) IN IsMatched(e) /\ IsIdle(e)

(* the text of the matched stream events consumed that are not of stderr *)
ConsumedStdout ==
    LET q == SelectSeq(MatchedEvents,
                       LAMBDA e : e.msg.msg_type = "stream" /\ e.msg.name # "stderr")
    IN  StrJoin([i \in 1..Len(q) |-> q[i].msg.text])

(* the result is made of what was consumed up to the idle status *)
ResultFromConsumed ==
    (HasResult /\ IdleConsumed) =>
        /\ Result.stdout = ConsumedStdout
        /\ Result.execution_count = ExpectedCount
        /\ Result.status # "timeout"
              => Len(stderr_chunks) <= Len(EventsOnStderr) + 1

(* C32: once execute has consumed the matched idle status it makes no       *)
(* further receive on iopub: that status is the last event handed over,     *)
(* matched stream, error and execute_input events published after it stay   *)
(* in the queue until the channels are stopped, and the stdout, stderr and  *)
(* execution_count of the result come from the events consumed before it    *)
(* and from the reply only.                                                 *)
C32_NothingReadAfterIdle ==
    /\ [][QuietAfterIdle]_vars
    /\ [](IdleIsLastEvent)
    /\ [](ResultFromConsumed)

(* the result is printed while a matched stream event published after the  *)
(* idle status is still queued, its text absent from the result            *)
C32_Witness ==
    /\ HasResult
    /\ pc = "finally"
    /\ IdleConsumed
    /\ \E i \in 1..Len(iopub) :
          /\ iopub[i].parent = MsgId
          /\ iopub[i].msg_type = "stream"
          /\ iopub[i].text = <<"6">>
    /\ ~Contains(<<"6">>, Result.stdout)

---------------------------------------------------------------------------
(* some call of the given kind, made before position i, returned *)
ReturnedBefore(kind, i) == \E j \in 1..(i - 1) : log[j].ev = kind /\ log[j].ok

(* the order of the calls execute makes on the client *)
CallsInOrder ==
    Executing =>
        \A i \in 1..Len(log) :
            /\ log[i].ev = "execute" => ReturnedBefore("wait_for_ready", i)
            /\ log[i].ev \in ReceiveCalls => ReturnedBefore("execute", i)
            /\ log[i].ev = "interrupt_kernel" => ReturnedBefore("execute", i)

(* until client.execute has returned there is no msg_id, nothing is read    *)
(* and nothing is accumulated                                               *)
NothingBeforeSend ==
    (Executing /\ msg_id = NoId) =>
        /\ Positions("interrupt_kernel") = {}
        /\ \A i \in 1..Len(log) : log[i].ev \notin ReceiveCalls
        /\ stdout_chunks = <<>> /\ stderr_chunks = <<>>
        /\ pc \notin {"iopub_head", "iopub_wait", "shell_head", "shell_wait", "finalize"}

(* C33: in one run of execute, client.execute is called only after          *)
(* wait_for_ready has returned, no message of iopub or shell is asked for   *)
(* or consumed before client.execute has returned the msg_id, and           *)
(* interrupt_kernel is called only after client.execute has returned.       *)
C33_CommandOrder == CallsInOrder /\ NothingBeforeSend

(* readiness, the command, an event consumed and the interrupt, in one run *)
C33_Witness ==
    /\ Executing
    /\ pc = "done"
    /\ ReadyReported
    /\ \E i \in Positions("execute") : log[i].ok
    /\ Consumed("iopub_msg") # <<>>
    /\ Positions("interrupt_kernel") # {}

====
